---- MODULE Spec2Model ----
(***************************************************************************)
(* Rasterizers of the teek bindings:                                       *)
(*   - Teek::MGBA.toast_background (teek_mgba.c), the signed-distance      *)
(*     toast rasterizer, computed in IEEE-754 binary32 as the C code does; *)
(*   - Teek::SDL2::Renderer#fill_rounded_rect (sdl2surface.c), the         *)
(*     midpoint-circle rounded rectangle.                                  *)
(***************************************************************************)
EXTENDS Integers, Sequences, FiniteSets, TLC

\* The state of a call of toast_background
VARIABLES
    pc,       \* where the call stands: "call", "memset", "loop", "ret",
              \* "done" (returned str) or "raised"
    w, h,     \* NUM2INT(rb_w), NUM2INT(rb_h)
    rb_rad,   \* the radius argument
    rad,      \* the local rad, clamped on entry
    nbytes,   \* the byte length asked of rb_str_new
    pixels,   \* the words of the string's buffer, index 0 .. nbytes/4 - 1
    px, py,   \* loop counters
    dist,     \* local of the loop body (a float)
    color,    \* local of the loop body (a packed word)
    stores,   \* the indices stored through pixels[...], in order
    str,      \* the returned string's words
    obs       \* an earlier call the caller remembers: arguments and result

toastVars == <<pc, w, h, rb_rad, rad, nbytes, pixels, px, py, dist, color,
               stores, str, obs>>

\* The state of a call of Renderer#fill_rounded_rect or #draw_rounded_rect
VARIABLES
    method,        \* the method called: "fill", "draw", or "none"
    rpc,           \* "call", "loop", "done", or "idle"
    rx, ry, rw, rh,\* the arguments x, y, w, h
    radius,        \* the argument radius
    rcol,          \* the arguments <<r, g, b, a>>
    rrad,          \* the local rad
    dx, dy, err,   \* midpoint-circle state
    sdl            \* the SDL calls made so far

rectVars == <<method, rpc, rx, ry, rw, rh, radius, rcol, rrad, dx, dy, err, sdl>>

\* The state of one wrapper object (AudioStream, Gamepad, Renderer, MGBA
\* Core or Texture) and of the native library behind it
VARIABLES
    kind,          \* the wrapper's class, or "none"
    obj,           \* the wrapper struct: handle, buf, window, owned_window,
                   \* destroyed, w, h
    freed,         \* the GC has run the dfree function (xfree'd the struct)
    alive,         \* the native resources not yet released
    native,        \* the native calls made so far: <<function, resource,
                   \* the resource was alive and the pointer non-NULL>>
    res,           \* the last method called, its argument and its outcome
    everDestroyed, \* destroy (or close) has been called on the wrapper
    texPix,        \* the pixel data the texture holds (0: as created)
    nops           \* the number of methods called so far

lifeVars == <<kind, obj, freed, alive, native, res, everDestroyed, texPix, nops>>

\* The state of one Teek::EventSource and of Tcl's notifier
VARIABLES
    es,            \* the struct event_source: made, check_fn, registered
    esFreed,       \* the GC has run event_source_free
    sources,       \* how many times the notifier's list holds the source
    creates,       \* the calls of Tcl_CreateEventSource so far
    deletes,       \* the calls of Tcl_DeleteEventSource so far
    checks,        \* the calls of the consumer's check_fn so far
    blocks,        \* the calls of Tcl_SetMaxBlockTime so far
    eres,          \* the last method or callback, its argument, its outcome
    everUnreg,     \* unregister has been called
    eops           \* the number of methods and callbacks so far

evtVars == <<es, esFreed, sources, creates, deletes, checks, blocks, eres,
             everUnreg, eops>>

\* Two invocations of toast_background in progress at once
VARIABLES
    inv,           \* per invocation: its arguments and locals (pc, w, h,
                   \* rb_rad, rad, nbytes, pixels, px, py, color, str)
    pdist,         \* per invocation: its local dist
    heap,          \* the words of the memory rb_str_new allocates from
    brk,           \* the first word rb_str_new has not handed out
    overlap        \* a step was taken while the other invocation was between
                   \* its allocation and its return

parVars == <<inv, pdist, heap, brk, overlap>>

vars == <<toastVars, rectVars, lifeVars, evtVars, parVars>>

(***************************************************************************)
(* IEEE-754 binary32 arithmetic (C float, round to nearest, ties to even,  *)
(* each operation rounded on its own: FLT_EVAL_METHOD 0, no contraction).  *)
(* A float is <<s, m, e>> with value (-1)^s * m * 2^e, where m = 0 (zero)  *)
(* or 2^23 <= m < 2^24.  Every intermediate integer stays below 2^31.      *)
(* Infinities, NaN and subnormals do not arise for the values the          *)
(* rasterizer computes (magnitudes between 2^-30 and 2^12).                *)
(***************************************************************************)
FZero == <<0, 0, 0>>

RECURSIVE BitLen(_)
BitLen(n) == IF n = 0 THEN 0 ELSE 1 + BitLen(n \div 2)

\* Round the magnitude n * 2^e (sticky: nonzero bits were already dropped
\* below n) to 24 significant bits, nearest, ties to even.
FRound(s, n, e, sticky) ==
    IF n = 0 THEN FZero
    ELSE LET L == BitLen(n)
         IN  IF L <= 24 THEN <<s, n * 2^(24 - L), e - (24 - L)>>
             ELSE LET sh   == L - 24
                      q    == n \div 2^sh
                      r    == n % 2^sh
                      half == 2^(sh - 1)
                      up   == \/ r > half
                              \/ r = half /\ (sticky \/ q % 2 = 1)
                      q1   == IF up THEN q + 1 ELSE q
                  IN  IF q1 = 2^24 THEN <<s, 2^23, e + sh + 1>>
                                   ELSE <<s, q1, e + sh>>

\* (float)n for an int n
FInt(n) == FRound(IF n < 0 THEN 1 ELSE 0, IF n < 0 THEN -n ELSE n, 0, FALSE)

FNeg(a) == IF a[2] = 0 THEN a ELSE <<1 - a[1], a[2], a[3]>>

\* fabsf
FAbs(a) == <<0, a[2], a[3]>>

\* a + b: the operand of smaller exponent is aligned under three extra bits
\* (guard, round, sticky), the exact sum of those is rounded.
FAdd(a, b) ==
    IF a[2] = 0 THEN b
    ELSE IF b[2] = 0 THEN a
    ELSE LET hi  == IF a[3] >= b[3] THEN a ELSE b
             lo  == IF a[3] >= b[3] THEN b ELSE a
             d   == hi[3] - lo[3]
             hiN == hi[2] * 8
             loN == IF d >= 27 THEN 1
                    ELSE LET v == (lo[2] * 8) \div 2^d
                         IN  IF (lo[2] * 8) % 2^d # 0 /\ v % 2 = 0 THEN v + 1 ELSE v
             sum == (IF hi[1] = 1 THEN -hiN ELSE hiN)
                    + (IF lo[1] = 1 THEN -loN ELSE loN)
         IN  IF sum < 0 THEN FRound(1, -sum, hi[3] - 3, FALSE)
                        ELSE FRound(0, sum, hi[3] - 3, FALSE)

FSub(a, b) == FAdd(a, FNeg(b))

\* a * b: the 48-bit product of the mantissas, in 12-bit limbs.
FMul(a, b) ==
    IF a[2] = 0 \/ b[2] = 0 THEN FZero
    ELSE LET a1 == a[2] \div 4096
             a0 == a[2] % 4096
             b1 == b[2] \div 4096
             b0 == b[2] % 4096
             cross == a1 * b0 + a0 * b1
             low   == a0 * b0 + (cross % 4096) * 4096
             lo    == low % 16777216
             hi    == a1 * b1 + cross \div 4096 + low \div 16777216
             s     == IF a[1] = b[1] THEN 0 ELSE 1
             e     == a[3] + b[3]
         IN  IF hi >= 8388608
             THEN LET up == lo > 8388608 \/ (lo = 8388608 /\ hi % 2 = 1)
                      q1 == IF up THEN hi + 1 ELSE hi
                  IN  IF q1 = 16777216 THEN <<s, 8388608, e + 25>>
                                       ELSE <<s, q1, e + 24>>
             ELSE LET q  == hi * 2 + lo \div 8388608
                      r  == lo % 8388608
                      up == r > 4194304 \/ (r = 4194304 /\ q % 2 = 1)
                      q1 == IF up THEN q + 1 ELSE q
                  IN  IF q1 = 16777216 THEN <<s, 8388608, e + 24>>
                                       ELSE <<s, q1, e + 23>>

\* k more quotient bits of rem / d by long division: <<quotient, remainder>>
RECURSIVE DivBits(_, _, _, _)
DivBits(rem, d, q, k) ==
    IF k = 0 THEN <<q, rem>>
    ELSE IF 2 * rem >= d THEN DivBits(2 * rem - d, d, 2 * q + 1, k - 1)
                         ELSE DivBits(2 * rem, d, 2 * q, k - 1)

\* a / b, b nonzero
FDiv(a, b) ==
    IF a[2] = 0 THEN FZero
    ELSE LET qr == DivBits(a[2] % b[2], b[2], a[2] \div b[2], 25)
         IN  FRound(IF a[1] = b[1] THEN 0 ELSE 1, qr[1], a[3] - b[3] - 25, qr[2] # 0)

\* Digit-by-digit square root of the integer n * 4^zeros, n given as `pairs`
\* base-4 digits: <<root, remainder>>
RECURSIVE SqrtBits(_, _, _, _, _)
SqrtBits(n, pairs, zeros, root, rem) ==
    IF pairs = 0 /\ zeros = 0 THEN <<root, rem>>
    ELSE LET digit == IF pairs > 0 THEN (n \div 4^(pairs - 1)) % 4 ELSE 0
             r4    == rem * 4 + digit
             trial == root * 4 + 1
             p1    == IF pairs > 0 THEN pairs - 1 ELSE 0
             z1    == IF pairs > 0 THEN zeros ELSE zeros - 1
         IN  IF r4 >= trial THEN SqrtBits(n, p1, z1, root * 2 + 1, r4 - trial)
                            ELSE SqrtBits(n, p1, z1, root * 2, r4)

\* sqrtf(a), a >= 0
FSqrt(a) ==
    IF a[2] = 0 THEN FZero
    ELSE LET odd == a[3] % 2 = 1
             n   == IF odd THEN a[2] * 2 ELSE a[2]
             e   == IF odd THEN a[3] - 1 ELSE a[3]
             rr  == SqrtBits(n, 13, 13, 0, 0)
         IN  FRound(0, rr[1], e \div 2 - 13, rr[2] # 0)

\* a < b
FLt(a, b) ==
    IF a[2] = 0 THEN b[2] # 0 /\ b[1] = 0
    ELSE IF b[2] = 0 THEN a[1] = 1
    ELSE IF a[1] # b[1] THEN a[1] = 1
    ELSE LET less == a[3] < b[3] \/ (a[3] = b[3] /\ a[2] < b[2])
             more == a[3] > b[3] \/ (a[3] = b[3] /\ a[2] > b[2])
         IN  IF a[1] = 0 THEN less ELSE more

FGe(a, b) == ~FLt(a, b)
FGt(a, b) == FLt(b, a)
FLe(a, b) == ~FLt(b, a)

\* (uint8_t)a for 0 <= a < 256: truncation toward zero
FToU8(a) ==
    IF a[2] = 0 \/ a[3] < -24 THEN 0
    ELSE IF a[3] >= 0 THEN a[2] * 2^a[3] ELSE a[2] \div 2^(-a[3])

(***************************************************************************)
(* Teek::MGBA.toast_background(w, h, radius)                               *)
(***************************************************************************)

\* Bounds of the argument box of a single call
MaxW == 8
MaxH == 8
MaxRad == 4
\* Bounds of the argument box when calls follow one another
CallMaxDim == 3
CallMaxRad == 2

\* C's int division, truncating toward zero
CDiv(a, b) == IF a >= 0 THEN a \div b ELSE -((-a) \div b)

\* Toast palette
TOAST_FILL_R == 20
TOAST_FILL_G == 20
TOAST_FILL_B == 28
TOAST_FILL_A == 180
TOAST_BDR_R == 100
TOAST_BDR_G == 110
TOAST_BDR_B == 140
TOAST_BDR_A == 210

\* Variant: the anti-aliasing width written as 1.0f
aa_w_one == FInt(1)

\* The float literals of the function
F0_5 == FDiv(FInt(1), FInt(2))
F1_0 == FInt(1)
\* Variant: a border one pixel thick
border_w_one == FInt(1)
border_w == FDiv(FInt(15), FInt(10))
aa_w == FDiv(FInt(12), FInt(10))

\* A packed ARGB word 0xAARRGGBB, kept as its four bytes <<A, R, G, B>>
\* (the word itself exceeds TLC's 32-bit integers); the parameters are
\* uint8_t.
toast_argb(a, r, g, b) == <<a % 256, r % 256, g % 256, b % 256>>

ZeroWord == <<0, 0, 0, 0>>
fill_color == toast_argb(TOAST_FILL_A, TOAST_FILL_R, TOAST_FILL_G, TOAST_FILL_B)
border_color == toast_argb(TOAST_BDR_A, TOAST_BDR_R, TOAST_BDR_G, TOAST_BDR_B)

\* if (rad < 0) rad = 0; if (rad > w / 2) rad = w / 2; if (rad > h / 2) ...
\* Variant: the clamp to h / 2 left out
ClampRad_noH(ww, hh, r) ==
    LET r1 == IF r < 0 THEN 0 ELSE r
    IN  IF r1 > CDiv(ww, 2) THEN CDiv(ww, 2) ELSE r1

ClampRad(ww, hh, r) ==
    LET r1 == IF r < 0 THEN 0 ELSE r
        r2 == IF r1 > CDiv(ww, 2) THEN CDiv(ww, 2) ELSE r1
    IN  IF r2 > CDiv(hh, 2) THEN CDiv(hh, 2) ELSE r2

\* Variant: the pixel's corner (px, py) taken instead of its centre
ToastDist_corner(x, y, ww, hh, r) ==
    LET frad == FInt(r)
        cx   == FInt(x)
        cy   == FInt(y)
        hw   == FMul(FInt(ww), F0_5)
        hhf  == FMul(FInt(hh), F0_5)
        qx   == FSub(FAbs(FSub(cx, hw)), FSub(hw, frad))
        qy   == FSub(FAbs(FSub(cy, hhf)), FSub(hhf, frad))
        mx   == IF FGt(qx, FZero) THEN qx ELSE FZero
        my   == IF FGt(qy, FZero) THEN qy ELSE FZero
        outside == FSqrt(FAdd(FMul(mx, mx), FMul(my, my)))
    IN  FSub(FAdd(outside,
                  IF FGt(outside, FZero) THEN FZero
                  ELSE IF FGt(qx, qy) THEN qx ELSE qy),
             frad)

\* The signed distance of the centre of pixel (x, y), as the loop body
\* computes it.
ToastDist(x, y, ww, hh, r) ==
    LET frad == FInt(r)
        cx   == FAdd(FInt(x), F0_5)
        cy   == FAdd(FInt(y), F0_5)
        hw   == FMul(FInt(ww), F0_5)
        hhf  == FMul(FInt(hh), F0_5)
        qx   == FSub(FAbs(FSub(cx, hw)), FSub(hw, frad))
        qy   == FSub(FAbs(FSub(cy, hhf)), FSub(hhf, frad))
        mx   == IF FGt(qx, FZero) THEN qx ELSE FZero
        my   == IF FGt(qy, FZero) THEN qy ELSE FZero
        outside == FSqrt(FAdd(FMul(mx, mx), FMul(my, my)))
    IN  FSub(FAdd(outside,
                  IF FGt(outside, FZero) THEN FZero
                  ELSE IF FGt(qx, qy) THEN qx ELSE qy),
             frad)

\* The four thresholds of the compositor, as the C expressions
\* Variant: the outer threshold without the halving
OuterEdge_noHalf == aa_w
OuterEdge == FMul(aa_w, F0_5)
OuterInner == FMul(FNeg(aa_w), F0_5)
\* Variant: the border threshold without the halving
BorderInner_noHalf == FNeg(FSub(border_w, aa_w))
BorderInner == FNeg(FSub(border_w, FMul(aa_w, F0_5)))
\* Variant: the innermost threshold without the halving
FringeInner_noHalf == FNeg(FAdd(border_w, aa_w))
FringeInner == FNeg(FAdd(border_w, FMul(aa_w, F0_5)))

\* Variant: the blend truncated without the + 0.5f
Blend_trunc(bdr, fil, t) ==
    FToU8(FAdd(FMul(FInt(bdr), t), FMul(FInt(fil), FSub(F1_0, t))))

\* (uint8_t)(bdr * t + fil * (1.0f - t) + 0.5f)
Blend(bdr, fil, t) ==
    FToU8(FAdd(FAdd(FMul(FInt(bdr), t), FMul(FInt(fil), FSub(F1_0, t))), F0_5))

\* Variant: the transparent branch leaves the local color unassigned, so
\* the word stored is whatever color held before
ToastColor_stale(d) ==
    IF FGe(d, OuterEdge) THEN color
    ELSE IF FGe(d, OuterInner)
    THEN LET t == FSub(F0_5, FDiv(d, aa_w))
             a == FToU8(FAdd(FMul(FInt(TOAST_BDR_A), t), F0_5))
         IN  IF a < 8 THEN ZeroWord
             ELSE toast_argb(a, TOAST_BDR_R, TOAST_BDR_G, TOAST_BDR_B)
    ELSE IF FGe(d, BorderInner) THEN border_color
    ELSE IF FGe(d, FringeInner)
    THEN LET t == FDiv(FAdd(FAdd(d, border_w), FMul(aa_w, F0_5)), aa_w)
         IN  toast_argb(Blend(TOAST_BDR_A, TOAST_FILL_A, t),
                        Blend(TOAST_BDR_R, TOAST_FILL_R, t),
                        Blend(TOAST_BDR_G, TOAST_FILL_G, t),
                        Blend(TOAST_BDR_B, TOAST_FILL_B, t))
    ELSE fill_color

\* Variant: the outer fringe without the visibility floor
ToastColor_nofloor(d) ==
    IF FGe(d, OuterEdge) THEN ZeroWord
    ELSE IF FGe(d, OuterInner)
    THEN LET t == FSub(F0_5, FDiv(d, aa_w))
             a == FToU8(FAdd(FMul(FInt(TOAST_BDR_A), t), F0_5))
         IN  toast_argb(a, TOAST_BDR_R, TOAST_BDR_G, TOAST_BDR_B)
    ELSE IF FGe(d, BorderInner) THEN border_color
    ELSE IF FGe(d, FringeInner)
    THEN LET t == FDiv(FAdd(FAdd(d, border_w), FMul(aa_w, F0_5)), aa_w)
         IN  toast_argb(Blend(TOAST_BDR_A, TOAST_FILL_A, t),
                        Blend(TOAST_BDR_R, TOAST_FILL_R, t),
                        Blend(TOAST_BDR_G, TOAST_FILL_G, t),
                        Blend(TOAST_BDR_B, TOAST_FILL_B, t))
    ELSE fill_color

\* The if / else-if chain that turns dist into the packed colour
ToastColor(d) ==
    IF FGe(d, OuterEdge) THEN ZeroWord
    ELSE IF FGe(d, OuterInner)
    THEN LET t == FSub(F0_5, FDiv(d, aa_w))
             a == FToU8(FAdd(FMul(FInt(TOAST_BDR_A), t), F0_5))
         IN  IF a < 8 THEN ZeroWord
             ELSE toast_argb(a, TOAST_BDR_R, TOAST_BDR_G, TOAST_BDR_B)
    ELSE IF FGe(d, BorderInner) THEN border_color
    ELSE IF FGe(d, FringeInner)
    THEN LET t == FDiv(FAdd(FAdd(d, border_w), FMul(aa_w, F0_5)), aa_w)
         IN  toast_argb(Blend(TOAST_BDR_A, TOAST_FILL_A, t),
                        Blend(TOAST_BDR_R, TOAST_FILL_R, t),
                        Blend(TOAST_BDR_G, TOAST_FILL_G, t),
                        Blend(TOAST_BDR_B, TOAST_FILL_B, t))
    ELSE fill_color

\* Variant: px and py exchanged
StoreIndex_swapped(x, y, ww) == x * ww + y

\* py * w + px
StoreIndex(x, y, ww) == y * ww + x

\* What memory that was never written may hold (two sample contents)
Garbage == {ZeroWord, <<255, 255, 255, 255>>}

\* The words of a string of len bytes, every word holding g
NewStr(len, g) == [i \in 0 .. (len \div 4 - 1) |-> g]

StrBytes(s) == 4 * Cardinality(DOMAIN s)

NoObs == [set |-> FALSE, w |-> 0, h |-> 0, rad |-> 0, str |-> NewStr(0, ZeroWord)]

\* Variant: && written for ||
Degenerate_and(ww, hh) == ww <= 0 /\ hh <= 0

\* if (w <= 0 || h <= 0) return rb_str_new(NULL, 0);
Degenerate(ww, hh) == ww <= 0 \/ hh <= 0

\* The function up to the allocation: the degenerate return, the clamp,
\* rb_str_new(NULL, nbytes), whose buffer is not initialised and which
\* raises ArgumentError on a negative length.
Entry ==
    /\ pc = "call"
    /\ IF Degenerate(w, h)
       THEN /\ str' = NewStr(0, ZeroWord)
            /\ pc' = "done"
            /\ UNCHANGED <<rad, nbytes, pixels>>
       ELSE /\ rad' = ClampRad(w, h, rad)
            /\ nbytes' = w * h * 4
            /\ IF nbytes' < 0
               THEN pc' = "raised" /\ UNCHANGED pixels
               ELSE /\ pc' = "memset"
                    /\ \E g \in Garbage : pixels' = NewStr(nbytes', g)
            /\ UNCHANGED str
    /\ UNCHANGED <<w, h, rb_rad, px, py, dist, color, stores, obs>>
    /\ UNCHANGED <<rectVars, lifeVars, evtVars, parVars>>

\* memset(pixels, 0, nbytes), then the loops start at py = 0, px = 0
Memset ==
    /\ pc = "memset"
    /\ pixels' = [i \in DOMAIN pixels |-> ZeroWord]
    /\ px' = 0
    /\ py' = 0
    /\ pc' = IF 0 < h /\ 0 < w THEN "loop" ELSE "ret"
    /\ UNCHANGED <<w, h, rb_rad, rad, nbytes, dist, color, stores, str, obs>>
    /\ UNCHANGED <<rectVars, lifeVars, evtVars, parVars>>

\* pixels[i] = c; a store outside the buffer changes no word of it
Store(buf, i, c) == IF i \in DOMAIN buf THEN [buf EXCEPT ![i] = c] ELSE buf

\* One iteration of the inner loop body, and the loop increments
PixelStep ==
    /\ pc = "loop"
    /\ dist' = ToastDist(px, py, w, h, rad)
    /\ color' = ToastColor(dist')
    /\ pixels' = Store(pixels, StoreIndex(px, py, w), color')
    /\ stores' = Append(stores, StoreIndex(px, py, w))
    /\ IF px + 1 < w
       THEN px' = px + 1 /\ py' = py /\ pc' = "loop"
       ELSE /\ px' = 0
            /\ py' = py + 1
            /\ pc' = IF py + 1 < h THEN "loop" ELSE "ret"
    /\ UNCHANGED <<w, h, rb_rad, rad, nbytes, str, obs>>
    /\ UNCHANGED <<rectVars, lifeVars, evtVars, parVars>>

\* for (int py = 0; py < h; py++) for (int px = 0; px < w; px++): the
\* increments and tests that end one iteration, as PixelStep takes them
LoopAdvance ==
    /\ pc = "loop"
    /\ IF px + 1 < w
       THEN px' = px + 1 /\ py' = py /\ pc' = "loop"
       ELSE /\ px' = 0
            /\ py' = py + 1
            /\ pc' = IF py + 1 < h THEN "loop" ELSE "ret"

\* return str;
Return ==
    /\ pc = "ret"
    /\ str' = pixels
    /\ pc' = "done"
    /\ UNCHANGED <<w, h, rb_rad, rad, nbytes, pixels, px, py, dist, color,
                   stores, obs>>
    /\ UNCHANGED <<rectVars, lifeVars, evtVars, parVars>>

\* The caller keeps the string the finished call returned, with the
\* arguments it passed.
Remember ==
    /\ pc = "done"
    /\ obs' = [set |-> TRUE, w |-> w, h |-> h, rad |-> rb_rad, str |-> str]
    /\ obs' # obs
    /\ UNCHANGED <<pc, w, h, rb_rad, rad, nbytes, pixels, px, py, dist, color,
                   stores, str>>
    /\ UNCHANGED <<rectVars, lifeVars, evtVars, parVars>>

\* The caller calls again with arguments a = <<w, h, radius>>; the locals
\* of the new call hold no defined value.
CallAgain(Families) ==
    /\ pc = "done"
    /\ \E F \in Families, g \in Garbage : \E a \in F :
         /\ <<w, h, rb_rad>> \in F
         /\ w' = a[1]
         /\ h' = a[2]
         /\ rb_rad' = a[3]
         /\ rad' = a[3]
         /\ color' = g
    /\ obs' = obs
    /\ pc' = "call"
    /\ nbytes' = 0
    /\ pixels' = NewStr(0, ZeroWord)
    /\ px' = 0
    /\ py' = 0
    /\ dist' = FZero
    /\ stores' = <<>>
    /\ str' = NewStr(0, ZeroWord)
    /\ UNCHANGED <<rectVars, lifeVars, evtVars, parVars>>

InitCall(Args) ==
    /\ pc = "call"
    /\ \E a \in Args : w = a[1] /\ h = a[2] /\ rb_rad = a[3] /\ rad = a[3]
    /\ color \in Garbage
    /\ nbytes = 0
    /\ pixels = NewStr(0, ZeroWord)
    /\ px = 0
    /\ py = 0
    /\ dist = FZero
    /\ stores = <<>>
    /\ str = NewStr(0, ZeroWord)
    /\ obs = NoObs

\* The radii tried: negative, in range, beyond every half size, and huge
Radii(maxr) == (-2 .. maxr) \cup {1000}

\* The scenarios the documentation names
ToastScenarios == {<<20, 20, 8>>, <<28, 28, 14>>}

ToastArgs ==
    {<<a, b, r>> : a \in -1 .. MaxW, b \in -1 .. MaxH, r \in Radii(MaxRad)}
        \cup ToastScenarios

\* The argument families of a caller that calls again and again: small
\* shapes, with one shape whose corner pixels are fully transparent; and the
\* documented pair of an oversized and a clamped radius.  A caller stays in
\* its family, which bounds the pairs of remembered and current call.
SmallCalls ==
    {<<a, b, r>> : a \in 1 .. CallMaxDim, b \in 1 .. CallMaxDim,
                   r \in (-1 .. CallMaxRad) \cup {1000}}
        \cup {<<8, 8, 4>>}
PairCalls == {<<40, 20, 1000>>, <<40, 20, 10>>}
CallFamilies == {SmallCalls, PairCalls}
CallArgs == UNION CallFamilies

\* No call of toast_background is in progress
ToastIdle ==
    /\ pc = "idle"
    /\ w = 0 /\ h = 0 /\ rb_rad = 0 /\ rad = 0
    /\ color = ZeroWord
    /\ nbytes = 0
    /\ pixels = NewStr(0, ZeroWord)
    /\ px = 0
    /\ py = 0
    /\ dist = FZero
    /\ stores = <<>>
    /\ str = NewStr(0, ZeroWord)
    /\ obs = NoObs

(***************************************************************************)
(* Teek::SDL2::Renderer#fill_rounded_rect(x, y, w, h, radius, r, g, b, a)  *)
(* and #draw_rounded_rect, same arguments, on a live renderer.  The model  *)
(* keeps the SDL calls the method makes, in order, each as <<name, four    *)
(* int arguments>>.                                                        *)
(***************************************************************************)

\* Bounds of the argument box
RectMaxDim == 8
RectMaxRad == 4

SDL_BLENDMODE_NONE == 0
SDL_BLENDMODE_BLEND == 1

\* SDL_SetRenderDrawBlendMode(ren, a < 255 ? BLEND : NONE);
\* SDL_SetRenderDrawColor(ren, r, g, b, a);
SetDrawState(col) ==
    << <<"SetRenderDrawBlendMode",
         IF col[4] < 255 THEN SDL_BLENDMODE_BLEND ELSE SDL_BLENDMODE_NONE, 0, 0, 0>>,
       <<"SetRenderDrawColor", col[1], col[2], col[3], col[4]>> >>

FillRect(a, b, c, d) == <<"RenderFillRect", a, b, c, d>>
DrawLine(a, b, c, d) == <<"RenderDrawLine", a, b, c, d>>
DrawRect(a, b, c, d) == <<"RenderDrawRect", a, b, c, d>>
DrawPoint(a, b) == <<"RenderDrawPoint", a, b, 0, 0>>

\* The SDL calls of Renderer#fill_rect(x, y, w, h, r, g, b, a)
renderer_fill_rect(a, b, c, d, col) ==
    SetDrawState(col) \o <<FillRect(a, b, c, d)>>

\* Variant: < written for <=
PlainRect_strict(r) == r < 0

\* if (rad <= 0) { one SDL_RenderFillRect; return }
PlainRect(r) == r <= 0

\* Variant: the radius left unclamped
ClampRectRad_none(ww, hh, r) == r

\* if (rad > w / 2) rad = w / 2; if (rad > h / 2) rad = h / 2;
ClampRectRad(ww, hh, r) ==
    LET r1 == IF r > CDiv(ww, 2) THEN CDiv(ww, 2) ELSE r
    IN  IF r1 > CDiv(hh, 2) THEN CDiv(hh, 2) ELSE r1

\* Variant: the side strips one pixel wider, reaching into the centre column
BodyRects_wide(a, b, ww, hh, r) ==
    << FillRect(a + r, b, ww - 2 * r, hh),
       FillRect(a, b + r, r + 1, hh - 2 * r),
       FillRect(a + ww - r - 1, b + r, r + 1, hh - 2 * r) >>

\* Variant: the centre column inset by the radius at top and bottom
BodyRects_inset(a, b, ww, hh, r) ==
    << FillRect(a + r, b + r, ww - 2 * r, hh - 2 * r),
       FillRect(a, b + r, r, hh - 2 * r),
       FillRect(a + ww - r, b + r, r, hh - 2 * r) >>

\* SDL_Rect rects[3]: centre column, left strip, right strip
BodyRects(a, b, ww, hh, r) ==
    << FillRect(a + r, b, ww - 2 * r, hh),
       FillRect(a, b + r, r, hh - 2 * r),
       FillRect(a + ww - r, b + r, r, hh - 2 * r) >>

cx_l == rx + rrad
\* Variant: the right centre column without the - 1
cx_r_wide == rx + rw - rrad
cx_r == rx + rw - rrad - 1
cy_t == ry + rrad
cy_b == ry + rh - rrad - 1

\* The spans one iteration of the fill loop draws
FillSpans ==
    << DrawLine(cx_l - dx, cy_t - dy, cx_l, cy_t - dy),
       DrawLine(cx_r, cy_t - dy, cx_r + dx, cy_t - dy),
       DrawLine(cx_l - dx, cy_b + dy, cx_l, cy_b + dy),
       DrawLine(cx_r, cy_b + dy, cx_r + dx, cy_b + dy) >>
    \o (IF dx # dy
        THEN << DrawLine(cx_l - dy, cy_t - dx, cx_l, cy_t - dx),
                DrawLine(cx_r, cy_t - dx, cx_r + dy, cy_t - dx),
                DrawLine(cx_l - dy, cy_b + dx, cx_l, cy_b + dx),
                DrawLine(cx_r, cy_b + dx, cx_r + dy, cy_b + dx) >>
        ELSE << >>)

\* The method up to the arc loop
FillEntry ==
    /\ method = "fill"
    /\ rpc = "call"
    /\ IF PlainRect(rrad)
       THEN /\ sdl' = SetDrawState(rcol) \o <<FillRect(rx, ry, rw, rh)>>
            /\ rpc' = "done"
            /\ UNCHANGED <<rrad, dx, dy, err>>
       ELSE /\ rrad' = ClampRectRad(rw, rh, rrad)
            /\ sdl' = SetDrawState(rcol) \o BodyRects(rx, ry, rw, rh, rrad')
            /\ dx' = rrad'
            /\ dy' = 0
            /\ err' = 1 - rrad'
            /\ rpc' = "loop"
    /\ UNCHANGED <<method, rx, ry, rw, rh, radius, rcol>>
    /\ UNCHANGED <<toastVars, lifeVars, evtVars, parVars>>

\* Variant: the error term updated with dx before its decrement
ArcStep_staleDx ==
    /\ method = "fill"
    /\ rpc = "loop"
    /\ dx >= dy
    /\ sdl' = sdl \o FillSpans
    /\ dy' = dy + 1
    /\ IF err < 0
       THEN dx' = dx /\ err' = err + 2 * dy' + 1
       ELSE dx' = dx - 1 /\ err' = err + 2 * (dy' - dx) + 1
    /\ UNCHANGED <<method, rpc, rx, ry, rw, rh, radius, rcol, rrad>>
    /\ UNCHANGED <<toastVars, lifeVars, evtVars, parVars>>

\* One iteration of while (dx >= dy)
ArcStep ==
    /\ method = "fill"
    /\ rpc = "loop"
    /\ dx >= dy
    /\ sdl' = sdl \o FillSpans
    /\ dy' = dy + 1
    /\ IF err < 0
       THEN dx' = dx /\ err' = err + 2 * dy' + 1
       ELSE dx' = dx - 1 /\ err' = err + 2 * (dy' - dx') + 1
    /\ UNCHANGED <<method, rpc, rx, ry, rw, rh, radius, rcol, rrad>>
    /\ UNCHANGED <<toastVars, lifeVars, evtVars, parVars>>

\* Variant: the loop left only once dx is two below dy
ArcExit_late ==
    /\ method = "fill"
    /\ rpc = "loop"
    /\ dx < dy - 1
    /\ rpc' = "done"
    /\ UNCHANGED <<method, rx, ry, rw, rh, radius, rcol, rrad, dx, dy, err, sdl>>
    /\ UNCHANGED <<toastVars, lifeVars, evtVars, parVars>>

\* The loop test fails: return self
ArcExit ==
    /\ method = "fill"
    /\ rpc = "loop"
    /\ dx < dy
    /\ rpc' = "done"
    /\ UNCHANGED <<method, rx, ry, rw, rh, radius, rcol, rrad, dx, dy, err, sdl>>
    /\ UNCHANGED <<toastVars, lifeVars, evtVars, parVars>>

\* Variant: the four edges drawn over the full sides of the box
EdgeLines_full(a, b, ww, hh, r) ==
    << DrawLine(a, b, a + ww - 1, b),
       DrawLine(a, b + hh - 1, a + ww - 1, b + hh - 1),
       DrawLine(a, b, a, b + hh - 1),
       DrawLine(a + ww - 1, b, a + ww - 1, b + hh - 1) >>

\* The four straight edges of the outline, inset by the radius
EdgeLines(a, b, ww, hh, r) ==
    << DrawLine(a + r, b, a + ww - r - 1, b),
       DrawLine(a + r, b + hh - 1, a + ww - r - 1, b + hh - 1),
       DrawLine(a, b + r, a, b + hh - r - 1),
       DrawLine(a + ww - 1, b + r, a + ww - 1, b + hh - r - 1) >>

\* The eight points one iteration of the outline loop draws
ArcPoints ==
    << DrawPoint(cx_l - dx, cy_t - dy),
       DrawPoint(cx_r + dx, cy_t - dy),
       DrawPoint(cx_l - dx, cy_b + dy),
       DrawPoint(cx_r + dx, cy_b + dy),
       DrawPoint(cx_l - dy, cy_t - dx),
       DrawPoint(cx_r + dy, cy_t - dx),
       DrawPoint(cx_l - dy, cy_b + dx),
       DrawPoint(cx_r + dy, cy_b + dx) >>

\* draw_rounded_rect up to the arc loop
DrawEntry ==
    /\ method = "draw"
    /\ rpc = "call"
    /\ IF PlainRect(rrad)
       THEN /\ sdl' = SetDrawState(rcol) \o <<DrawRect(rx, ry, rw, rh)>>
            /\ rpc' = "done"
            /\ UNCHANGED <<rrad, dx, dy, err>>
       ELSE /\ rrad' = ClampRectRad(rw, rh, rrad)
            /\ sdl' = SetDrawState(rcol) \o EdgeLines(rx, ry, rw, rh, rrad')
            /\ dx' = rrad'
            /\ dy' = 0
            /\ err' = 1 - rrad'
            /\ rpc' = "loop"
    /\ UNCHANGED <<method, rx, ry, rw, rh, radius, rcol>>
    /\ UNCHANGED <<toastVars, lifeVars, evtVars, parVars>>

\* One iteration of the outline's while (dx >= dy)
DrawArcStep ==
    /\ method = "draw"
    /\ rpc = "loop"
    /\ dx >= dy
    /\ sdl' = sdl \o ArcPoints
    /\ dy' = dy + 1
    /\ IF err < 0
       THEN dx' = dx /\ err' = err + 2 * dy' + 1
       ELSE dx' = dx - 1 /\ err' = err + 2 * (dy' - dx') + 1
    /\ UNCHANGED <<method, rpc, rx, ry, rw, rh, radius, rcol, rrad>>
    /\ UNCHANGED <<toastVars, lifeVars, evtVars, parVars>>

\* The outline's loop test fails: return self
DrawArcExit ==
    /\ method = "draw"
    /\ rpc = "loop"
    /\ dx < dy
    /\ rpc' = "done"
    /\ UNCHANGED <<method, rx, ry, rw, rh, radius, rcol, rrad, dx, dy, err, sdl>>
    /\ UNCHANGED <<toastVars, lifeVars, evtVars, parVars>>

\* The spans the fill loop draws from (ddx, ddy, e) until its test fails,
\* for the box {a, b, ww, hh} with the clamped radius r
RECURSIVE Spans(_, _, _, _, _, _, _, _)
Spans(a, b, ww, hh, r, ddx, ddy, e) ==
    IF ddx < ddy THEN << >>
    ELSE LET l  == a + r
             rt == a + ww - r - 1
             t  == b + r
             bt == b + hh - r - 1
         IN  << DrawLine(l - ddx, t - ddy, l, t - ddy),
                DrawLine(rt, t - ddy, rt + ddx, t - ddy),
                DrawLine(l - ddx, bt + ddy, l, bt + ddy),
                DrawLine(rt, bt + ddy, rt + ddx, bt + ddy) >>
             \o (IF ddx # ddy
                 THEN << DrawLine(l - ddy, t - ddx, l, t - ddx),
                         DrawLine(rt, t - ddx, rt + ddy, t - ddx),
                         DrawLine(l - ddy, bt + ddx, l, bt + ddx),
                         DrawLine(rt, bt + ddx, rt + ddy, bt + ddx) >>
                 ELSE << >>)
             \o (IF e < 0
                 THEN Spans(a, b, ww, hh, r, ddx, ddy + 1, e + 2 * (ddy + 1) + 1)
                 ELSE Spans(a, b, ww, hh, r, ddx - 1, ddy + 1,
                            e + 2 * ((ddy + 1) - (ddx - 1)) + 1))

\* The drawing calls of one whole fill_rounded_rect(a, b, ww, hh, r0, ...),
\* after the two draw-state calls
FillCalls(a, b, ww, hh, r0) ==
    IF PlainRect(r0) THEN <<FillRect(a, b, ww, hh)>>
    ELSE LET r == ClampRectRad(ww, hh, r0)
         IN  BodyRects(a, b, ww, hh, r) \o Spans(a, b, ww, hh, r, r, 0, 1 - r)

\* The scenarios the documentation names: <<x, y, w, h, radius>>
RectScenarios == {<<0, 0, 10, 10, 0>>, <<0, 0, 4, 4, 100>>}

RectArgs ==
    {<<a, b, c, d, r>> : a \in {0, 3}, b \in {-2, 0},
                         c \in -1 .. RectMaxDim, d \in -1 .. RectMaxDim,
                         r \in (-1 .. RectMaxRad) \cup {100}}
        \cup RectScenarios

\* Opaque and translucent colours
RectColors == {<<200, 30, 30, 255>>, <<30, 30, 200, 128>>}

InitRect ==
    /\ method \in {"fill", "draw"}
    /\ rpc = "call"
    /\ \E a \in RectArgs :
         rx = a[1] /\ ry = a[2] /\ rw = a[3] /\ rh = a[4] /\ radius = a[5]
                   /\ rrad = a[5]
    /\ rcol \in RectColors
    /\ dx = 0
    /\ dy = 0
    /\ err = 0
    /\ sdl = <<>>

\* No renderer call is in progress
RectIdle ==
    /\ method = "none"
    /\ rpc = "idle"
    /\ rx = 0 /\ ry = 0 /\ rw = 0 /\ rh = 0 /\ radius = 0 /\ rrad = 0
    /\ rcol = <<0, 0, 0, 255>>
    /\ dx = 0
    /\ dy = 0
    /\ err = 0
    /\ sdl = <<>>

\* The pixels an SDL drawing call covers: a rectangle of positive size, the
\* one-pixel outline of a rectangle of positive size, a point, or an
\* axis-parallel line with both end points; the state calls cover none.
PrimPixels(p) ==
    IF p[1] = "RenderFillRect"
    THEN {<<i, j>> : i \in p[2] .. (p[2] + p[4] - 1), j \in p[3] .. (p[3] + p[5] - 1)}
    ELSE IF p[1] = "RenderDrawRect"
    THEN {q \in {<<i, j>> : i \in p[2] .. (p[2] + p[4] - 1),
                            j \in p[3] .. (p[3] + p[5] - 1)} :
             \/ q[1] \in {p[2], p[2] + p[4] - 1}
             \/ q[2] \in {p[3], p[3] + p[5] - 1}}
    ELSE IF p[1] = "RenderDrawPoint"
    THEN {<<p[2], p[3]>>}
    ELSE IF p[1] = "RenderDrawLine"
    THEN {<<i, j>> : i \in (IF p[2] <= p[4] THEN p[2] ELSE p[4])
                            .. (IF p[2] <= p[4] THEN p[4] ELSE p[2]),
                     j \in (IF p[3] <= p[5] THEN p[3] ELSE p[5])
                            .. (IF p[3] <= p[5] THEN p[5] ELSE p[3])}
    ELSE {}

\* The pixels written by a sequence of SDL calls
Covered(calls) == UNION {PrimPixels(calls[i]) : i \in DOMAIN calls}


(***************************************************************************)
(* Wrapper objects and their native handles: Teek::SDL2::AudioStream       *)
(* (sdl2audio.c), Gamepad (sdl2gamepad.c), Renderer and Texture            *)
(* (sdl2surface.c, sdl2bridge.c) and Teek::MGBA::Core (teek_mgba.c).       *)
(* A wrapper struct holds one native handle (device_id, controller,        *)
(* renderer, core, texture), a destroyed flag and, by class, a video       *)
(* buffer or a window.  The native resources are "handle", "buf" and       *)
(* "window"; a pointer field is 1 when set and 0 when NULL.                *)
(***************************************************************************)

\* Bounds: methods called on one wrapper, and the texture's sides
MaxOps == 4
TexMaxDim == 2

Kinds == {"AudioStream", "Gamepad", "Renderer", "Core", "Texture"}

\* What a method did: the struct afterwards and the native calls made
Did(o, calls) == [o |-> o, calls |-> calls]

\* get_audio_stream, get_gamepad, get_renderer, get_mgba_core, get_texture:
\* TRUE when the struct is returned, FALSE when the guard raises
get_audio_stream(o) == ~(o.destroyed # 0 \/ o.handle = 0)
get_gamepad(o) == ~(o.destroyed # 0 \/ o.handle = 0)
get_renderer(o) == ~(o.destroyed # 0 \/ o.handle = 0)
get_mgba_core(o) == ~(o.destroyed # 0 \/ o.handle = 0)
get_texture(o) == ~(o.destroyed # 0 \/ o.handle = 0)

\* The guard of class k
Usable(k, o) ==
    CASE k = "AudioStream" -> get_audio_stream(o)
      [] k = "Gamepad" -> get_gamepad(o)
      [] k = "Renderer" -> get_renderer(o)
      [] k = "Core" -> get_mgba_core(o)
      [] k = "Texture" -> get_texture(o)

\* The exception the guard of class k raises
GuardError(k) ==
    IF k \in {"Renderer", "Texture"} THEN "SDL2Error" ELSE "RuntimeError"

\* One instance method of each class that passes the handle to the library:
\* AudioStream#resume, Gamepad#name, Renderer#present, Core#run_frame
UseCall(k) ==
    CASE k = "AudioStream" -> "SDL_PauseAudioDevice"
      [] k = "Gamepad" -> "SDL_GameControllerName"
      [] k = "Renderer" -> "SDL_RenderPresent"
      [] k = "Core" -> "runFrame"

\* Variant: destroy closes the device and leaves the struct as it was
audio_stream_destroy_keep(o) ==
    IF o.destroyed = 0 /\ o.handle > 0
    THEN Did(o, << <<"SDL_CloseAudioDevice", "handle">> >>)
    ELSE Did(o, << >>)

\* AudioStream#destroy
audio_stream_destroy(o) ==
    IF o.destroyed = 0 /\ o.handle > 0
    THEN Did([o EXCEPT !.handle = 0, !.destroyed = 1],
             << <<"SDL_CloseAudioDevice", "handle">> >>)
    ELSE Did(o, << >>)

\* the dfree function of AudioStream, before xfree
audio_stream_free(o) ==
    IF o.destroyed = 0 /\ o.handle > 0
    THEN Did([o EXCEPT !.handle = 0, !.destroyed = 1],
             << <<"SDL_CloseAudioDevice", "handle">> >>)
    ELSE Did(o, << >>)

\* AudioStream#destroyed?
audio_stream_destroyed_p(o) == o.destroyed # 0

\* Gamepad#close, Gamepad#destroy
gamepad_close(o) ==
    IF o.destroyed = 0 /\ o.handle # 0
    THEN Did([o EXCEPT !.handle = 0, !.destroyed = 1],
             << <<"SDL_GameControllerClose", "handle">> >>)
    ELSE Did(o, << >>)

\* the dfree function of Gamepad, before xfree
gamepad_free(o) ==
    IF o.destroyed = 0 /\ o.handle # 0
    THEN Did([o EXCEPT !.handle = 0, !.destroyed = 1],
             << <<"SDL_GameControllerClose", "handle">> >>)
    ELSE Did(o, << >>)

\* Gamepad#closed?, Gamepad#destroyed?
gamepad_closed_p(o) == o.destroyed # 0 \/ o.handle = 0

\* Renderer#destroy
renderer_destroy(o) ==
    IF o.destroyed = 0
    THEN Did([o EXCEPT !.handle = 0,
                       !.window = IF o.window # 0 /\ o.owned_window # 0
                                  THEN 0 ELSE o.window,
                       !.destroyed = 1],
             (IF o.handle # 0
              THEN << <<"SDL_DestroyRenderer", "handle">> >> ELSE << >>)
             \o (IF o.window # 0 /\ o.owned_window # 0
                 THEN << <<"SDL_DestroyWindow", "window">> >> ELSE << >>))
    ELSE Did(o, << >>)

\* the dfree function of Renderer, before xfree
renderer_free(o) ==
    IF o.destroyed = 0
    THEN Did([o EXCEPT !.handle = 0,
                       !.window = IF o.window # 0 /\ o.owned_window # 0
                                  THEN 0 ELSE o.window,
                       !.destroyed = 1],
             (IF o.handle # 0
              THEN << <<"SDL_DestroyRenderer", "handle">> >> ELSE << >>)
             \o (IF o.window # 0 /\ o.owned_window # 0
                 THEN << <<"SDL_DestroyWindow", "window">> >> ELSE << >>))
    ELSE Did(o, << >>)

\* Renderer#destroyed?
renderer_destroyed_p(o) == o.destroyed # 0

\* Core#destroy
mgba_core_destroy(o) ==
    Did([o EXCEPT !.handle = IF o.destroyed = 0 /\ o.handle # 0 THEN 0 ELSE o.handle,
                  !.buf = 0,
                  !.destroyed = 1],
        (IF o.destroyed = 0 /\ o.handle # 0
         THEN << <<"deinit", "handle">> >> ELSE << >>)
        \o (IF o.buf # 0 THEN << <<"free", "buf">> >> ELSE << >>))

\* the dfree function of Core, before xfree
mgba_core_dfree(o) ==
    Did([o EXCEPT !.handle = IF o.destroyed = 0 /\ o.handle # 0 THEN 0 ELSE o.handle,
                  !.buf = 0,
                  !.destroyed = 1],
        (IF o.destroyed = 0 /\ o.handle # 0
         THEN << <<"deinit", "handle">> >> ELSE << >>)
        \o (IF o.buf # 0 THEN << <<"free", "buf">> >> ELSE << >>))

\* Core#destroyed?
mgba_core_destroyed_p(o) == o.destroyed # 0

\* Texture#destroy
texture_destroy(o) ==
    IF o.destroyed = 0 /\ o.handle # 0
    THEN Did([o EXCEPT !.handle = 0, !.destroyed = 1],
             << <<"SDL_DestroyTexture", "handle">> >>)
    ELSE Did(o, << >>)

\* the dfree function of Texture, before xfree
texture_free(o) ==
    IF o.destroyed = 0 /\ o.handle # 0
    THEN Did([o EXCEPT !.handle = 0, !.destroyed = 1],
             << <<"SDL_DestroyTexture", "handle">> >>)
    ELSE Did(o, << >>)

\* Texture#destroyed?
texture_destroyed_p(o) == o.destroyed # 0

\* destroy (close) of class k
DestroyOf(k, o) ==
    CASE k = "AudioStream" -> audio_stream_destroy(o)
      [] k = "Gamepad" -> gamepad_close(o)
      [] k = "Renderer" -> renderer_destroy(o)
      [] k = "Core" -> mgba_core_destroy(o)
      [] k = "Texture" -> texture_destroy(o)

\* the dfree function of class k
FreeOf(k, o) ==
    CASE k = "AudioStream" -> audio_stream_free(o)
      [] k = "Gamepad" -> gamepad_free(o)
      [] k = "Renderer" -> renderer_free(o)
      [] k = "Core" -> mgba_core_dfree(o)
      [] k = "Texture" -> texture_free(o)

\* destroyed? of class k
DestroyedP(k, o) ==
    CASE k = "AudioStream" -> audio_stream_destroyed_p(o)
      [] k = "Gamepad" -> gamepad_closed_p(o)
      [] k = "Renderer" -> renderer_destroyed_p(o)
      [] k = "Core" -> mgba_core_destroyed_p(o)
      [] k = "Texture" -> texture_destroyed_p(o)

\* The native functions that release a resource
Releases ==
    {"SDL_CloseAudioDevice", "SDL_GameControllerClose", "SDL_DestroyRenderer",
     "SDL_DestroyWindow", "deinit", "free", "SDL_DestroyTexture"}

\* The library performs the calls in order, from the alive set al: each
\* call is recorded with whether its resource was alive and its pointer set
RECURSIVE Stamp(_, _, _)
Stamp(calls, al, o) ==
    IF calls = << >> THEN << >>
    ELSE LET c == Head(calls)
             ok == c[2] \in al /\ o[c[2]] # 0
         IN  << <<c[1], c[2], ok>> >>
             \o Stamp(Tail(calls), IF c[1] \in Releases THEN al \ {c[2]} ELSE al, o)

\* The resources alive after the calls
AliveAfter(calls, al) ==
    al \ {calls[i][2] : i \in {j \in DOMAIN calls : calls[j][1] \in Releases}}

NoRes == [op |-> "none", arg |-> 0, out |-> "none"]

\* An instance method that uses the native handle: the guard, then the call
\* (Texture's is update, below)
Use ==
    /\ kind \in Kinds \ {"Texture"}
    /\ ~freed
    /\ nops < MaxOps
    /\ IF Usable(kind, obj)
       THEN /\ native' = native \o Stamp(<< <<UseCall(kind), "handle">> >>, alive, obj)
            /\ res' = [op |-> "use", arg |-> 0, out |-> "ok"]
       ELSE /\ native' = native
            /\ res' = [op |-> "use", arg |-> 0, out |-> GuardError(kind)]
    /\ nops' = nops + 1
    /\ UNCHANGED <<kind, obj, freed, alive, everDestroyed, texPix>>
    /\ UNCHANGED <<toastVars, rectVars, evtVars, parVars>>

\* destroy, or close
Destroy ==
    /\ kind \in Kinds
    /\ ~freed
    /\ nops < MaxOps
    /\ LET d == DestroyOf(kind, obj)
       IN  /\ obj' = d.o
           /\ native' = native \o Stamp(d.calls, alive, obj)
           /\ alive' = AliveAfter(d.calls, alive)
    /\ everDestroyed' = TRUE
    /\ res' = [op |-> "destroy", arg |-> 0, out |-> "nil"]
    /\ nops' = nops + 1
    /\ UNCHANGED <<kind, freed, texPix>>
    /\ UNCHANGED <<toastVars, rectVars, evtVars, parVars>>

\* destroyed?, or closed?
AskDestroyed ==
    /\ kind \in Kinds
    /\ ~freed
    /\ nops < MaxOps
    /\ res' = [op |-> "destroyed?", arg |-> 0,
               out |-> IF DestroyedP(kind, obj) THEN "true" ELSE "false"]
    /\ nops' = nops + 1
    /\ UNCHANGED <<kind, obj, freed, alive, native, everDestroyed, texPix>>
    /\ UNCHANGED <<toastVars, rectVars, evtVars, parVars>>

\* The GC collects the wrapper: its dfree function runs, once, and no
\* method can be called afterwards
Finalize ==
    /\ kind \in Kinds
    /\ ~freed
    /\ LET d == FreeOf(kind, obj)
       IN  /\ obj' = d.o
           /\ native' = native \o Stamp(d.calls, alive, obj)
           /\ alive' = AliveAfter(d.calls, alive)
    /\ freed' = TRUE
    /\ res' = [op |-> "dfree", arg |-> 0, out |-> "none"]
    /\ UNCHANGED <<kind, everDestroyed, texPix, nops>>
    /\ UNCHANGED <<toastVars, rectVars, evtVars, parVars>>

\* Variant: the length test passes a string that is too long
LengthOk_atLeast(len, o) == len >= o.w * o.h * 4

\* RSTRING_LEN(pixels) != expected, with expected = (long)t->w * t->h * 4
LengthOk(len, o) == len = o.w * o.h * 4

\* Texture#update(pixels) with a String of len bytes holding the data d:
\* the guard, the length test, then SDL_UpdateTexture, which may fail
texture_update(len, d) ==
    /\ kind = "Texture"
    /\ ~freed
    /\ nops < MaxOps
    /\ IF ~get_texture(obj)
       THEN /\ res' = [op |-> "update", arg |-> len, out |-> "SDL2Error"]
            /\ UNCHANGED <<native, texPix>>
       ELSE IF ~LengthOk(len, obj)
       THEN /\ res' = [op |-> "update", arg |-> len, out |-> "ArgumentError"]
            /\ UNCHANGED <<native, texPix>>
       ELSE /\ native' = native \o Stamp(<< <<"SDL_UpdateTexture", "handle">> >>, alive, obj)
            /\ \/ /\ texPix' = d
                  /\ res' = [op |-> "update", arg |-> len, out |-> "ok"]
               \/ /\ texPix' = texPix
                  /\ res' = [op |-> "update", arg |-> len, out |-> "SDL2Error"]
    /\ nops' = nops + 1
    /\ UNCHANGED <<kind, obj, freed, alive, everDestroyed>>
    /\ UNCHANGED <<toastVars, rectVars, evtVars, parVars>>

\* The byte lengths tried on a w x h texture: none, one short, exact, one
\* over, and a row more
UpdateLens(o) ==
    {0, o.w * o.h * 4 - 1, o.w * o.h * 4, o.w * o.h * 4 + 1, (o.w + 1) * o.h * 4}

TextureUpdate == \E len \in UpdateLens(obj), d \in {1, 2} : texture_update(len, d)

\* The wrapper structs after allocation (every pointer NULL) and after a
\* successful construction: AudioStream#initialize, Gamepad.open,
\* create_renderer_from_handle (the window is Tk's: owned_window = 0),
\* Core#initialize, Renderer#create_texture.
NewStruct(k, made, tw, th) ==
    [handle |-> IF made THEN 1 ELSE 0,
     buf |-> IF made /\ k = "Core" THEN 1 ELSE 0,
     window |-> IF made /\ k = "Renderer" THEN 1 ELSE 0,
     owned_window |-> 0,
     destroyed |-> 0,
     w |-> IF made /\ k = "Texture" THEN tw ELSE 0,
     h |-> IF made /\ k = "Texture" THEN th ELSE 0]

\* The native resources a struct points to
Held(o) == {f \in {"handle", "buf", "window"} : o[f] # 0}

InitLife ==
    /\ kind \in Kinds
    /\ \E made \in BOOLEAN, tw \in 1 .. TexMaxDim, th \in 1 .. TexMaxDim :
          obj = NewStruct(kind, made, tw, th)
    /\ freed = FALSE
    /\ alive = Held(obj)
    /\ native = << >>
    /\ res = NoRes
    /\ everDestroyed = FALSE
    /\ texPix = 0
    /\ nops = 0

\* No wrapper is under consideration
LifeIdle ==
    /\ kind = "none"
    /\ obj = NewStruct("none", FALSE, 1, 1)
    /\ freed = FALSE
    /\ alive = {}
    /\ native = << >>
    /\ res = NoRes
    /\ everDestroyed = FALSE
    /\ texPix = 0
    /\ nops = 0


(***************************************************************************)
(* Teek::EventSource (tkeventsource.c): a C function registered as a Tcl   *)
(* event source.  The notifier is the one of the thread that registered    *)
(* the source; it calls the setup and check procs of the sources on its    *)
(* list, and Tcl_DeleteEventSource takes a listed source off the list and  *)
(* does nothing for a source that is not on it.                            *)
(***************************************************************************)

\* Bound: methods and notifier callbacks on one event source
MaxEvtOps == 4

\* The bits of the flags argument of Tcl_DoOneEvent (tcl.h), as a set
FlagBits == {"DONT_WAIT", "WINDOW", "FILE", "TIMER", "IDLE"}
TCL_FILE_EVENTS == {"FILE"}
TCL_ALL_EVENTS == FlagBits \ {"DONT_WAIT"}

\* The test of es_setup_proc and es_check_proc, negated:
\* !(!(flags & TCL_FILE_EVENTS) && !(flags & TCL_ALL_EVENTS))
FlagsPass(flags) ==
    ~((flags \cap TCL_FILE_EVENTS) = {} /\ (flags \cap TCL_ALL_EVENTS) = {})

NoEs == [made |-> FALSE, check_fn |-> 0, registered |-> 0]
NoEres == [op |-> "none", arg |-> {}, out |-> "none"]

\* Teek._register_event_source(fn, data, interval)
teek_register_event_source(fn) ==
    /\ ~es.made
    /\ eops < MaxEvtOps
    /\ IF fn = 0
       THEN /\ eres' = [op |-> "register", arg |-> {}, out |-> "ArgumentError"]
            /\ UNCHANGED <<es, sources, creates>>
       ELSE /\ es' = [made |-> TRUE, check_fn |-> fn, registered |-> 1]
            /\ sources' = sources + 1
            /\ creates' = creates + 1
            /\ eres' = [op |-> "register", arg |-> {}, out |-> "ok"]
    /\ eops' = eops + 1
    /\ UNCHANGED <<esFreed, deletes, checks, blocks, everUnreg>>
    /\ UNCHANGED <<toastVars, rectVars, lifeVars, parVars>>

Register == \E fn \in {0, 1} : teek_register_event_source(fn)

\* Variant: unregister deletes the source and leaves registered set
unregister_keep(e) == e

\* the struct after EventSource#unregister or event_source_free
unregister_clear(e) == [e EXCEPT !.registered = 0]

\* EventSource#unregister
event_source_unregister ==
    /\ es.made /\ ~esFreed
    /\ eops < MaxEvtOps
    /\ IF es.registered # 0
       THEN /\ deletes' = deletes + 1
            /\ sources' = IF sources > 0 THEN sources - 1 ELSE 0
            /\ es' = unregister_clear(es)
       ELSE UNCHANGED <<deletes, sources, es>>
    /\ everUnreg' = TRUE
    /\ eres' = [op |-> "unregister", arg |-> {}, out |-> "nil"]
    /\ eops' = eops + 1
    /\ UNCHANGED <<esFreed, creates, checks, blocks>>
    /\ UNCHANGED <<toastVars, rectVars, lifeVars, parVars>>

\* EventSource#registered?
event_source_registered_p ==
    /\ es.made /\ ~esFreed
    /\ eops < MaxEvtOps
    /\ eres' = [op |-> "registered?", arg |-> {},
                out |-> IF es.registered # 0 THEN "true" ELSE "false"]
    /\ eops' = eops + 1
    /\ UNCHANGED <<es, esFreed, sources, creates, deletes, checks, blocks, everUnreg>>
    /\ UNCHANGED <<toastVars, rectVars, lifeVars, parVars>>

\* The GC collects the EventSource: event_source_free
event_source_free ==
    /\ es.made /\ ~esFreed
    /\ IF es.registered # 0
       THEN /\ deletes' = deletes + 1
            /\ sources' = IF sources > 0 THEN sources - 1 ELSE 0
            /\ es' = unregister_clear(es)
       ELSE UNCHANGED <<deletes, sources, es>>
    /\ esFreed' = TRUE
    /\ eres' = [op |-> "dfree", arg |-> {}, out |-> "none"]
    /\ UNCHANGED <<creates, checks, blocks, everUnreg, eops>>
    /\ UNCHANGED <<toastVars, rectVars, lifeVars, parVars>>

\* The notifier calls es_setup_proc of a listed source
es_setup_proc(flags) ==
    /\ sources > 0
    /\ eops < MaxEvtOps
    /\ blocks' = IF FlagsPass(flags) THEN blocks + 1 ELSE blocks
    /\ eres' = [op |-> "setup", arg |-> flags,
                out |-> IF esFreed THEN "freed" ELSE "ok"]
    /\ eops' = eops + 1
    /\ UNCHANGED <<es, esFreed, sources, creates, deletes, checks, everUnreg>>
    /\ UNCHANGED <<toastVars, rectVars, lifeVars, parVars>>

TclSetup == \E flags \in SUBSET FlagBits : es_setup_proc(flags)

\* The notifier calls es_check_proc of a listed source
es_check_proc(flags) ==
    /\ sources > 0
    /\ eops < MaxEvtOps
    /\ checks' = IF FlagsPass(flags) THEN checks + 1 ELSE checks
    /\ eres' = [op |-> "check", arg |-> flags,
                out |-> IF esFreed THEN "freed" ELSE "ok"]
    /\ eops' = eops + 1
    /\ UNCHANGED <<es, esFreed, sources, creates, deletes, blocks, everUnreg>>
    /\ UNCHANGED <<toastVars, rectVars, lifeVars, parVars>>

TclCheck == \E flags \in SUBSET FlagBits : es_check_proc(flags)

\* Before Teek._register_event_source
InitEvt ==
    /\ es = NoEs
    /\ esFreed = FALSE
    /\ sources = 0
    /\ creates = 0
    /\ deletes = 0
    /\ checks = 0
    /\ blocks = 0
    /\ eres = NoEres
    /\ everUnreg = FALSE
    /\ eops = 0


(***************************************************************************)
(* Two invocations of mgba_toast_background whose steps interleave.  Each  *)
(* has its own arguments and locals; the memory their strings come from    *)
(* is one heap, so that a store outside a string's own words would be      *)
(* seen by the other invocation.  pixels is the index of the string's      *)
(* first word in the heap, str the <<first word, word count>> returned.    *)
(***************************************************************************)

\* Bound: the sides of the two concurrent toasts
ParMaxDim == 2

ParProcs == {1, 2}

\* The arguments of each invocation: a degenerate width, every shape up to
\* ParMaxDim, square corners and a radius that is clamped
ParArgs == (0 .. ParMaxDim) \X (1 .. ParMaxDim) \X {0, 1000}

\* Variant: rb_str_new hands out the words at the start of the heap again
rb_str_new_reuse(b) == 0

\* rb_str_new(NULL, nbytes): the string's words start at the first word
\* not handed out yet
rb_str_new(b) == b

\* The other invocation
Other(i) == 3 - i

\* The other invocation holds a buffer it has not returned yet
MidCall(i) == inv[i].pc \in {"memset", "loop", "ret"}

\* The function up to the allocation, in invocation i
PEntry(i) ==
    /\ inv[i].pc = "call"
    /\ LET v == inv[i] IN
       IF Degenerate(v.w, v.h)
       THEN /\ inv' = [inv EXCEPT ![i].pc = "done", ![i].str = <<brk, 0>>]
            /\ UNCHANGED <<heap, brk>>
       ELSE LET n == v.w * v.h
                base == rb_str_new(brk)
            IN  /\ inv' = [inv EXCEPT ![i].rad = ClampRad(v.w, v.h, v.rad),
                                      ![i].nbytes = n * 4,
                                      ![i].pixels = base,
                                      ![i].pc = "memset"]
                /\ brk' = IF base + n > brk THEN base + n ELSE brk
                /\ \E g \in Garbage :
                      heap' = [a \in 0 .. (brk' - 1) |->
                                  IF a \in DOMAIN heap THEN heap[a] ELSE g]
    /\ overlap' = (overlap \/ MidCall(Other(i)))
    /\ UNCHANGED pdist
    /\ UNCHANGED <<toastVars, rectVars, lifeVars, evtVars>>

\* memset(pixels, 0, nbytes), in invocation i
PMemset(i) ==
    /\ inv[i].pc = "memset"
    /\ LET v == inv[i] IN
       /\ heap' = [a \in DOMAIN heap |->
                      IF a \in v.pixels .. (v.pixels + v.nbytes \div 4 - 1)
                      THEN ZeroWord ELSE heap[a]]
       /\ inv' = [inv EXCEPT ![i].px = 0, ![i].py = 0,
                             ![i].pc = IF 0 < v.h /\ 0 < v.w THEN "loop" ELSE "ret"]
    /\ overlap' = (overlap \/ MidCall(Other(i)))
    /\ UNCHANGED <<pdist, brk>>
    /\ UNCHANGED <<toastVars, rectVars, lifeVars, evtVars>>

\* One iteration of the inner loop body, in invocation i
PPixel(i) ==
    /\ inv[i].pc = "loop"
    /\ pdist' = [pdist EXCEPT
                    ![i] = ToastDist(inv[i].px, inv[i].py, inv[i].w, inv[i].h,
                                     inv[i].rad)]
    /\ LET v == inv[i]
           c == ToastColor(pdist'[i])
           last == ~(v.px + 1 < v.w)
       IN  /\ heap' = Store(heap, v.pixels + StoreIndex(v.px, v.py, v.w), c)
           /\ inv' = [inv EXCEPT ![i].color = c,
                                 ![i].px = IF last THEN 0 ELSE v.px + 1,
                                 ![i].py = IF last THEN v.py + 1 ELSE v.py,
                                 ![i].pc = IF last /\ ~(v.py + 1 < v.h)
                                           THEN "ret" ELSE "loop"]
    /\ overlap' = (overlap \/ MidCall(Other(i)))
    /\ UNCHANGED brk
    /\ UNCHANGED <<toastVars, rectVars, lifeVars, evtVars>>

\* return str, in invocation i
PReturn(i) ==
    /\ inv[i].pc = "ret"
    /\ inv' = [inv EXCEPT ![i].pc = "done",
                          ![i].str = <<inv[i].pixels, inv[i].nbytes \div 4>>]
    /\ overlap' = (overlap \/ MidCall(Other(i)))
    /\ UNCHANGED <<pdist, heap, brk>>
    /\ UNCHANGED <<toastVars, rectVars, lifeVars, evtVars>>

ParEntry == \E i \in ParProcs : PEntry(i)
ParMemset == \E i \in ParProcs : PMemset(i)
ParPixel == \E i \in ParProcs : PPixel(i)
ParReturn == \E i \in ParProcs : PReturn(i)

\* The locals of an invocation called with a = <<w, h, radius>>
NewInv(a, g) ==
    [pc |-> "call", w |-> a[1], h |-> a[2], rb_rad |-> a[3], rad |-> a[3],
     nbytes |-> 0, pixels |-> 0, px |-> 0, py |-> 0, color |-> g,
     str |-> <<0, 0>>]

InitPar ==
    /\ \E a \in ParArgs, b \in ParArgs, g \in Garbage :
          inv = <<NewInv(a, g), NewInv(b, g)>>
    /\ pdist = <<FZero, FZero>>
    /\ heap = << >>
    /\ brk = 0
    /\ overlap = FALSE

\* No concurrent invocations
ParIdle ==
    /\ inv = <<NewInv(<<0, 0, 0>>, ZeroWord), NewInv(<<0, 0, 0>>, ZeroWord)>>
    /\ pdist = <<FZero, FZero>>
    /\ heap = << >>
    /\ brk = 0
    /\ overlap = FALSE

\* One call of toast_background
Init == InitCall(ToastArgs) /\ RectIdle /\ LifeIdle /\ InitEvt /\ ParIdle
Next == Entry \/ Memset \/ PixelStep \/ Return
Spec == Init /\ [][Next]_vars

\* Calls of toast_background one after the other
InitCalls == InitCall(CallArgs) /\ RectIdle /\ LifeIdle /\ InitEvt /\ ParIdle
NextCalls ==
    Entry \/ Memset \/ PixelStep \/ Return \/ Remember \/ CallAgain(CallFamilies)
SpecCalls == InitCalls /\ [][NextCalls]_vars

\* One call of Renderer#fill_rounded_rect or of Renderer#draw_rounded_rect
InitFill == ToastIdle /\ InitRect /\ LifeIdle /\ InitEvt /\ ParIdle
NextFill ==
    FillEntry \/ ArcStep \/ ArcExit \/ DrawEntry \/ DrawArcStep \/ DrawArcExit
SpecFill == InitFill /\ [][NextFill]_vars

\* One wrapper object, from its allocation to its collection
InitWrapper == ToastIdle /\ RectIdle /\ InitLife /\ InitEvt /\ ParIdle
NextLife == Use \/ Destroy \/ AskDestroyed \/ TextureUpdate \/ Finalize
SpecLife == InitWrapper /\ [][NextLife]_vars

\* One event source, from before its registration to its collection
InitSource == ToastIdle /\ RectIdle /\ LifeIdle /\ InitEvt /\ ParIdle
NextEvt ==
    \/ Register
    \/ event_source_unregister
    \/ event_source_registered_p
    \/ event_source_free
    \/ TclSetup
    \/ TclCheck
SpecEvt == InitSource /\ [][NextEvt]_vars

\* Two invocations of toast_background, their steps in any order
InitTwo == ToastIdle /\ RectIdle /\ LifeIdle /\ InitEvt /\ InitPar
NextPar == ParEntry \/ ParMemset \/ ParPixel \/ ParReturn
SpecPar == InitTwo /\ [][NextPar]_vars

\* The distance of one pixel centre: the loop body's distance computation
\* applied to one (px, py) of a call (w, h, radius), the radius clamped as
\* the function clamps it before the loops.
DistMaxDim == 6

\* The pixels (px, py) of the small calls, and one pixel of a large toast,
\* 4102 x 4102 with radius 2051 (w * h * 4 = 67305616 bytes)
DistArgs ==
    {a \in (0 .. (DistMaxDim - 1)) \X (0 .. (DistMaxDim - 1))
             \X (1 .. DistMaxDim) \X (1 .. DistMaxDim) \X Radii(MaxRad) :
        a[1] < a[3] /\ a[2] < a[4]}
    \cup {<<1640, 41, 4102, 4102, 2051>>}

InitDist ==
    /\ pc = "point"
    /\ \E a \in DistArgs :
         /\ px = a[1] /\ py = a[2]
         /\ w = a[3] /\ h = a[4] /\ rb_rad = a[5]
         /\ rad = ClampRad(a[3], a[4], a[5])
    /\ color = ZeroWord
    /\ nbytes = w * h * 4
    /\ pixels = NewStr(0, ZeroWord)
    /\ dist = FZero
    /\ stores = <<>>
    /\ str = NewStr(0, ZeroWord)
    /\ obs = NoObs
    /\ RectIdle /\ LifeIdle /\ InitEvt /\ ParIdle

\* float dist; ... dist = outside + (...) - frad;
Measure ==
    /\ pc = "point"
    /\ dist' = ToastDist(px, py, w, h, rad)
    /\ pc' = "measured"
    /\ UNCHANGED <<w, h, rb_rad, rad, nbytes, pixels, px, py, color, stores,
                   str, obs>>
    /\ UNCHANGED <<rectVars, lifeVars, evtVars, parVars>>

SpecDist == InitDist /\ [][Measure]_vars

\* A thread that makes one rasterizer call, of toast_background or of a
\* rounded-rect method.  The call is synchronous and nothing suspends it, so
\* once made, a step that can be taken is taken.
InitRun == ToastIdle /\ RectIdle /\ LifeIdle /\ InitEvt /\ ParIdle

\* Teek::MGBA.toast_background(w, h, radius) is called
RunToast ==
    /\ pc = "idle" /\ rpc = "idle"
    /\ \E a \in ToastArgs :
         w' = a[1] /\ h' = a[2] /\ rb_rad' = a[3] /\ rad' = a[3]
    /\ color' \in Garbage
    /\ pc' = "call"
    /\ UNCHANGED <<nbytes, pixels, px, py, dist, stores, str, obs>>
    /\ UNCHANGED <<rectVars, lifeVars, evtVars, parVars>>

\* renderer.fill_rounded_rect or renderer.draw_rounded_rect is called
RunRect ==
    /\ pc = "idle" /\ rpc = "idle"
    /\ method' \in {"fill", "draw"}
    /\ \E a \in RectArgs :
         rx' = a[1] /\ ry' = a[2] /\ rw' = a[3] /\ rh' = a[4] /\ radius' = a[5]
                    /\ rrad' = a[5]
    /\ rcol' \in RectColors
    /\ rpc' = "call"
    /\ UNCHANGED <<dx, dy, err, sdl>>
    /\ UNCHANGED <<toastVars, lifeVars, evtVars, parVars>>

NextRun == RunToast \/ RunRect \/ Next \/ NextFill
SpecRun ==
    /\ InitRun
    /\ [][NextRun]_vars
    /\ WF_vars(NextFill)
    /\ WF_vars(Entry \/ Memset \/ Return)
    /\ WF_<<pc, px, py>>(LoopAdvance)

(***************************************************************************)
(* A Renderer and the Texture made by its create_texture.  Here kind is    *)
(* "Pair", obj holds both structs (ren, tex), whether the Texture object   *)
(* exists (made) and which of the two the GC has freed (rfreed, tfreed);   *)
(* alive holds <<"ren", "handle">>, <<"ren", "window">> and                *)
(* <<"tex", "handle">>; native keeps <<function, "ren" or "tex", the       *)
(* pointer passed was non-NULL and its resource alive>>.  The Texture      *)
(* marks its Renderer (texture_mark), so the Renderer is collected only    *)
(* once the Texture is unreachable; the finalizers of two unreachable      *)
(* objects run in either order.                                            *)
(***************************************************************************)

\* The library performs the calls a method of struct who made.
\* SDL_DestroyRenderer also frees the textures of the renderer.
PairDo(d, who, al) ==
    LET o == IF who = "ren" THEN obj.ren ELSE obj.tex
        fns == {d.calls[i][1] : i \in DOMAIN d.calls}
    IN  [log   |-> [i \in DOMAIN d.calls |->
                      <<d.calls[i][1], who,
                        <<who, d.calls[i][2]>> \in al /\ o[d.calls[i][2]] # 0>>],
         alive |-> al \ ((IF "SDL_DestroyRenderer" \in fns
                          THEN {<<"ren", "handle">>, <<"tex", "handle">>} ELSE {})
                         \cup (IF "SDL_DestroyWindow" \in fns
                               THEN {<<"ren", "window">>} ELSE {})
                         \cup (IF "SDL_DestroyTexture" \in fns
                               THEN {<<"tex", "handle">>} ELSE {}))]

\* What SDL returns when handed a texture pointer: success or an error for
\* a live texture; for a freed one the behaviour is undefined (success, an
\* error, or the process dies)
SdlOutcomes(ok) == IF ok THEN {"ok", "SDL2Error"} ELSE {"ok", "SDL2Error", "crash"}

\* Renderer#create_texture(tw, th)
CreateTexture ==
    /\ kind = "Pair" /\ res.out # "crash"
    /\ ~obj.rfreed /\ ~obj.made
    /\ nops < MaxOps
    /\ IF ~get_renderer(obj.ren)
       THEN /\ res' = [op |-> "create_texture", arg |-> 0, out |-> "SDL2Error"]
            /\ UNCHANGED <<obj, native, alive>>
       ELSE /\ native' = native \o << <<"SDL_CreateTexture", "ren",
                                        <<"ren", "handle">> \in alive>> >>
            /\ \/ /\ \E tw \in 1 .. TexMaxDim, th \in 1 .. TexMaxDim :
                       obj' = [obj EXCEPT !.tex = NewStruct("Texture", TRUE, tw, th),
                                          !.made = TRUE]
                  /\ alive' = alive \cup {<<"tex", "handle">>}
                  /\ res' = [op |-> "create_texture", arg |-> 0, out |-> "ok"]
               \/ /\ res' = [op |-> "create_texture", arg |-> 0, out |-> "SDL2Error"]
                  /\ UNCHANGED <<obj, alive>>
    /\ nops' = nops + 1
    /\ UNCHANGED <<kind, freed, everDestroyed, texPix>>
    /\ UNCHANGED <<toastVars, rectVars, evtVars, parVars>>

\* Renderer#destroy
DestroyRenderer ==
    /\ kind = "Pair" /\ res.out # "crash"
    /\ ~obj.rfreed
    /\ nops < MaxOps
    /\ LET d == renderer_destroy(obj.ren)
           n == PairDo(d, "ren", alive)
       IN  /\ obj' = [obj EXCEPT !.ren = d.o]
           /\ native' = native \o n.log
           /\ alive' = n.alive
    /\ everDestroyed' = TRUE
    /\ res' = [op |-> "destroy", arg |-> 0, out |-> "nil"]
    /\ nops' = nops + 1
    /\ UNCHANGED <<kind, freed, texPix>>
    /\ UNCHANGED <<toastVars, rectVars, evtVars, parVars>>

\* Texture#update(pixels) with a String of w * h * 4 bytes, and
\* Texture#blend_mode = mode: get_texture, then the SDL call on t->texture
UseTexture ==
    /\ kind = "Pair" /\ res.out # "crash"
    /\ obj.made /\ ~obj.tfreed /\ ~obj.rfreed
    /\ nops < MaxOps
    /\ \E fn \in {"SDL_UpdateTexture", "SDL_SetTextureBlendMode"} :
         IF ~get_texture(obj.tex)
         THEN /\ res' = [op |-> fn, arg |-> 0, out |-> "SDL2Error"]
              /\ UNCHANGED <<native, texPix>>
         ELSE LET ok == <<"tex", "handle">> \in alive
              IN  /\ native' = native \o << <<fn, "tex", ok>> >>
                  /\ \E out \in SdlOutcomes(ok) :
                       /\ res' = [op |-> fn, arg |-> 0, out |-> out]
                       /\ texPix' = IF out = "ok" /\ fn = "SDL_UpdateTexture"
                                    THEN 1 ELSE texPix
    /\ nops' = nops + 1
    /\ UNCHANGED <<kind, obj, freed, alive, everDestroyed>>
    /\ UNCHANGED <<toastVars, rectVars, evtVars, parVars>>

\* Renderer#copy(texture): get_renderer, get_texture, then SDL_RenderCopy
CopyTexture ==
    /\ kind = "Pair" /\ res.out # "crash"
    /\ obj.made /\ ~obj.tfreed /\ ~obj.rfreed
    /\ nops < MaxOps
    /\ IF ~get_renderer(obj.ren) \/ ~get_texture(obj.tex)
       THEN /\ res' = [op |-> "copy", arg |-> 0, out |-> "SDL2Error"]
            /\ UNCHANGED native
       ELSE LET ok == {<<"ren", "handle">>, <<"tex", "handle">>} \subseteq alive
            IN  /\ native' = native \o << <<"SDL_RenderCopy", "tex", ok>> >>
                /\ \E out \in SdlOutcomes(ok) :
                     res' = [op |-> "copy", arg |-> 0, out |-> out]
    /\ nops' = nops + 1
    /\ UNCHANGED <<kind, obj, freed, alive, everDestroyed, texPix>>
    /\ UNCHANGED <<toastVars, rectVars, evtVars, parVars>>

\* Texture#destroy
DestroyTexture ==
    /\ kind = "Pair" /\ res.out # "crash"
    /\ obj.made /\ ~obj.tfreed /\ ~obj.rfreed
    /\ nops < MaxOps
    /\ LET d == texture_destroy(obj.tex)
           n == PairDo(d, "tex", alive)
       IN  /\ obj' = [obj EXCEPT !.tex = d.o]
           /\ native' = native \o n.log
           /\ alive' = n.alive
    /\ res' = [op |-> "texture_destroy", arg |-> 0, out |-> "nil"]
    /\ nops' = nops + 1
    /\ UNCHANGED <<kind, freed, everDestroyed, texPix>>
    /\ UNCHANGED <<toastVars, rectVars, evtVars, parVars>>

\* The GC frees one of the two objects: texture_free or renderer_free runs
Collect ==
    /\ kind = "Pair" /\ res.out # "crash"
    /\ \/ /\ obj.made /\ ~obj.tfreed
          /\ LET d == texture_free(obj.tex)
                 n == PairDo(d, "tex", alive)
             IN  /\ obj' = [obj EXCEPT !.tex = d.o, !.tfreed = TRUE]
                 /\ native' = native \o n.log
                 /\ alive' = n.alive
          /\ res' = [op |-> "texture_free", arg |-> 0, out |-> "none"]
       \/ /\ ~obj.rfreed
          /\ LET d == renderer_free(obj.ren)
                 n == PairDo(d, "ren", alive)
             IN  /\ obj' = [obj EXCEPT !.ren = d.o, !.rfreed = TRUE]
                 /\ native' = native \o n.log
                 /\ alive' = n.alive
          /\ res' = [op |-> "renderer_free", arg |-> 0, out |-> "none"]
    /\ freed' = (obj'.rfreed /\ (obj'.tfreed \/ ~obj'.made))
    /\ UNCHANGED <<kind, everDestroyed, texPix, nops>>
    /\ UNCHANGED <<toastVars, rectVars, evtVars, parVars>>

\* A renderer made by create_renderer_from_handle, no texture yet
InitPair ==
    /\ ToastIdle /\ RectIdle /\ InitEvt /\ ParIdle
    /\ kind = "Pair"
    /\ obj = [ren |-> NewStruct("Renderer", TRUE, 1, 1),
              tex |-> NewStruct("Texture", FALSE, 1, 1),
              made |-> FALSE, rfreed |-> FALSE, tfreed |-> FALSE]
    /\ freed = FALSE
    /\ alive = {<<"ren", "handle">>, <<"ren", "window">>}
    /\ native = << >>
    /\ res = NoRes
    /\ everDestroyed = FALSE
    /\ texPix = 0
    /\ nops = 0

NextPair ==
    \/ CreateTexture
    \/ DestroyRenderer
    \/ UseTexture
    \/ CopyTexture
    \/ DestroyTexture
    \/ Collect
SpecPair == InitPair /\ [][NextPair]_vars

(***************************************************************************)
(* Properties                                                              *)
(***************************************************************************)

\* The returned word of pixel (x, y)
Pix(x, y) == str[y * w + x]

\* The call of toast_background has returned a buffer for a shape w, h > 0
ToastDone == pc = "done" /\ w > 0 /\ h > 0

\* The decimal m / 10 as a C float literal
Dec(m) == IF m < 0 THEN FNeg(FDiv(FInt(-m), FInt(10))) ELSE FDiv(FInt(m), FInt(10))

C2_FillExact ==
    /\ ToastColor(Dec(-21)) = <<180, 20, 20, 28>>
    /\ ToastDone =>
         \A x \in 0 .. (w - 1), y \in 0 .. (h - 1) :
            FLe(ToastDist(x, y, w, h, rad), Dec(-21)) => Pix(x, y) = <<180, 20, 20, 28>>

C2_Witness ==
    /\ ToastDone /\ w = 6 /\ h = 5 /\ rb_rad = 2
    /\ FLe(ToastDist(2, 2, w, h, rad), Dec(-21))
    /\ Pix(2, 2) = <<180, 20, 20, 28>>

\* C3: every returned pixel whose distance is at least 1.2/2 = 0.6 is the
\* zero word, and so is the colour computed for a distance exactly 0.6.
C3_OutsideTransparent ==
    /\ ToastColor(Dec(6)) = ZeroWord
    /\ ToastDone =>
         \A x \in 0 .. (w - 1), y \in 0 .. (h - 1) :
            FGe(ToastDist(x, y, w, h, rad), Dec(6)) => Pix(x, y) = ZeroWord

C3_Witness ==
    /\ ToastDone /\ w = 8 /\ h = 8 /\ rb_rad = 4
    /\ FGe(ToastDist(0, 0, w, h, rad), Dec(6))
    /\ Pix(0, 0) = ZeroWord

\* max(0, min(r, w/2, h/2)) with integer division, for w, h > 0
MaxMinClamp(r, ww, hh) ==
    LET m1 == IF r < ww \div 2 THEN r ELSE ww \div 2
        m2 == IF m1 < hh \div 2 THEN m1 ELSE hh \div 2
    IN  IF m2 < 0 THEN 0 ELSE m2

\* C4: no radius is rejected, and the buffer a call returns equals the
\* buffer returned by a call with the same w, h and the radius
\* max(0, min(r, w/2, h/2)), whichever of the two calls came first.
C4_ClampedRadius ==
    /\ (w > 0 /\ h > 0) => pc # "raised"
    /\ (ToastDone /\ obs.set /\ obs.w = w /\ obs.h = h) =>
         /\ obs.rad = MaxMinClamp(rb_rad, w, h) => str = obs.str
         /\ rb_rad = MaxMinClamp(obs.rad, w, h) => str = obs.str

C4_Witness ==
    /\ ToastDone /\ <<w, h, rb_rad>> = <<40, 20, 1000>>
    /\ obs.set /\ <<obs.w, obs.h, obs.rad>> = <<40, 20, 10>>
    /\ str = obs.str
    /\ Pix(0, 0) # Pix(20, 10)

\* C5: with w <= 0 or h <= 0 the call returns an empty buffer: it does not
\* raise, allocates and stores nothing, whatever the radius.
C5_DegenerateEmpty ==
    (w <= 0 \/ h <= 0) =>
        /\ pc \in {"call", "done"}
        /\ stores = <<>>
        /\ StrBytes(pixels) = 0
        /\ StrBytes(str) = 0

C5_Witness ==
    pc = "done" /\ w = 3 /\ h = 0 /\ rb_rad = 1000 /\ StrBytes(str) = 0

C7_Deterministic ==
    (pc = "done" /\ obs.set /\ obs.w = w /\ obs.h = h) =>
        /\ obs.rad = rb_rad => str = obs.str
        /\ (w > 0 /\ h > 0 /\ ClampRad(w, h, obs.rad) = ClampRad(w, h, rb_rad))
               => str = obs.str

C7_Witness ==
    /\ ToastDone /\ <<w, h, rb_rad>> = <<8, 8, 4>>
    /\ obs.set /\ <<obs.w, obs.h, obs.rad>> = <<8, 8, 4>>
    /\ str = obs.str
    /\ Pix(0, 0) = ZeroWord

\* toast_background(20, 20, 8) has returned
Toast20 == pc = "done" /\ <<w, h, rb_rad>> = <<20, 20, 8>>

\* C8 as claimed: in toast_background(20, 20, 8) pixel (0,0) is transparent,
\* pixel (10,10) is the fill colour, and pixel (10,0) is the border colour
\* (210, 100, 110, 140) or lies in the border/fill transition band
\* -2.1 <= dist < -0.9, and is not transparent.
C8_AsClaimed ==
    Toast20 =>
        /\ Pix(0, 0) = ZeroWord
        /\ Pix(10, 10) = <<180, 20, 20, 28>>
        /\ \/ Pix(10, 0) = <<210, 100, 110, 140>>
           \/ /\ FGe(ToastDist(10, 0, w, h, rad), Dec(-21))
              /\ FLt(ToastDist(10, 0, w, h, rad), Dec(-9))
        /\ Pix(10, 0) # ZeroWord

\* C8 amended: pixel (0,0) is transparent, pixel (10,10) is the fill colour,
\* and pixel (10,0), at distance -0.5, lies in the border/background
\* transition band -0.6 <= dist < 0.6: it has the border's RGB with alpha
\* 192, and is not transparent.
C8_Scenario ==
    Toast20 =>
        /\ Pix(0, 0) = ZeroWord
        /\ Pix(10, 10) = <<180, 20, 20, 28>>
        /\ ToastDist(10, 0, w, h, rad) = FNeg(Dec(5))
        /\ FGe(ToastDist(10, 0, w, h, rad), Dec(-6))
        /\ FLt(ToastDist(10, 0, w, h, rad), Dec(6))
        /\ Pix(10, 0) = <<192, 100, 110, 140>>

C8_Witness == Toast20 /\ Pix(10, 0)[1] = 192 /\ Pix(10, 10)[1] = 180

\* The call of fill_rounded_rect has returned
FillDone == method = "fill" /\ rpc = "done"

\* The call of draw_rounded_rect has returned
DrawDone == method = "draw" /\ rpc = "done"

\* The drawing calls among the SDL calls made
Drawn(name) == {i \in DOMAIN sdl : sdl[i][1] = name}

\* The pixels of the rectangle {x, y, w, h}
Box(a, b, c, d) == {<<i, j>> : i \in a .. (a + c - 1), j \in b .. (b + d - 1)}

\* C9: with radius <= 0, fill_rounded_rect makes exactly the SDL calls of
\* fill_rect with the same x, y, w, h and colour: one fill rectangle
\* {x, y, w, h}, no line; the pixels written are those of the rectangle.
C9_PlainRectangle ==
    (FillDone /\ radius <= 0) =>
        /\ sdl = renderer_fill_rect(rx, ry, rw, rh, rcol)
        /\ Cardinality(Drawn("RenderFillRect")) = 1
        /\ Drawn("RenderDrawLine") = {}
        /\ Covered(sdl) = Box(rx, ry, rw, rh)

C9_Witness ==
    /\ FillDone /\ <<rx, ry, rw, rh, radius>> = <<0, 0, 10, 10, 0>>
    /\ Cardinality(Covered(sdl)) = 100

\* fill_rounded_rect(0, 0, 4, 4, 100, color) has returned
Fill4 == FillDone /\ <<rx, ry, rw, rh, radius>> = <<0, 0, 4, 4, 100>>

NoNegativeRect ==
    \A i \in Drawn("RenderFillRect") : sdl[i][4] >= 0 /\ sdl[i][5] >= 0

\* C10 as claimed: fill_rounded_rect(0,0,4,4,100) clamps the radius to 2,
\* emits no rectangle of negative width or height, and writes every pixel
\* of [0,4) x [0,4).
C10_AsClaimed ==
    Fill4 =>
        /\ rrad = 2
        /\ NoNegativeRect
        /\ Box(0, 0, 4, 4) \subseteq Covered(sdl)

\* C10 amended: the radius is clamped to 2, no rectangle has a negative
\* width or height, and the pixels written are those of [0,4) x [0,4)
\* except the four corner pixels, which the rounding leaves out.
C10_Scenario ==
    Fill4 =>
        /\ rrad = 2
        /\ NoNegativeRect
        /\ Covered(sdl) = Box(0, 0, 4, 4) \ {<<0, 0>>, <<3, 0>>, <<0, 3>>, <<3, 3>>}

C10_Witness == Fill4 /\ rrad = 2 /\ Cardinality(Covered(sdl)) = 12

\* The columns of row j written by the SDL calls made
RowOf(j) == {p[1] : p \in {q \in Covered(sdl) : q[2] = j}}

\* A set of integers is one non-empty run without a hole
OneRun(S) ==
    /\ S # {}
    /\ \A a \in S, b \in S : \A i \in a .. b : i \in S

\* C11: for w, h >= 1 and every radius >= 1, in range or beyond
\* min(w,h)/2, each row y .. y+h-1 of the pixels fill_rounded_rect covers
\* is one non-empty contiguous run: no hole at the seams between the corner
\* spans and the body rectangles, also when a body rectangle is empty.
C11_NoGaps ==
    (FillDone /\ rw >= 1 /\ rh >= 1 /\ radius >= 1) =>
        \A j \in ry .. (ry + rh - 1) : OneRun(RowOf(j))

C11_Witness ==
    /\ FillDone /\ <<rw, rh, radius>> = <<8, 6, 100>> /\ rrad = 3
    /\ sdl[4][5] = 0 /\ sdl[5][5] = 0
    /\ \A j \in ry .. (ry + rh - 1) : OneRun(RowOf(j))
    /\ Cardinality(RowOf(ry)) < Cardinality(RowOf(ry + 3))

\* A call of fill_rounded_rect or draw_rounded_rect has returned
RoundedDone == method \in {"fill", "draw"} /\ rpc = "done"

\* How many of the SDL calls made cover pixel p
Times(p) == Cardinality({i \in DOMAIN sdl : p \in PrimPixels(sdl[i])})

\* C12 as claimed: in one call of fill_rounded_rect or draw_rounded_rect with
\* radius > 0 no pixel is covered by more than one of the primitives drawn
\* (body rectangles, corner spans, straight edges, arc points), so that
\* with alpha < 255 no pixel is blended twice.
C12_AsClaimed ==
    (RoundedDone /\ radius > 0) => \A p \in Covered(sdl) : Times(p) = 1

\* fill_rounded_rect(0, 0, 6, 6, 2, 30, 30, 200, 128): pixel (0, 2) lies in
\* the left strip and in the first corner span, pixel (2, 2) in the centre
\* column and in the same span, and blending is on.
C12_Witness ==
    /\ FillDone /\ <<rx, ry, rw, rh, radius>> = <<0, 0, 6, 6, 2>> /\ rcol[4] = 128
    /\ sdl[1] = <<"SetRenderDrawBlendMode", SDL_BLENDMODE_BLEND, 0, 0, 0>>
    /\ Times(<<0, 2>>) = 2
    /\ Times(<<2, 2>>) >= 2

\* C13 as claimed: fill_rounded_rect and draw_rounded_rect called with
\* w <= 0 or h <= 0 draw no pixel, whatever the radius.
C13_AsClaimed ==
    (RoundedDone /\ (rw <= 0 \/ rh <= 0)) => Covered(sdl) = {}

\* fill_rounded_rect(0, 0, 0, 5, 3, ...): the radius is clamped to 0, the
\* three rectangles are empty, and the one iteration of the arc loop draws
\* the points (0,0), (-1,0), (0,4), (-1,4).
C13_Witness ==
    /\ FillDone /\ <<rx, ry, rw, rh, radius>> = <<0, 0, 0, 5, 3>> /\ rrad = 0
    /\ Covered(sdl) = {<<0, 0>>, <<-1, 0>>, <<0, 4>>, <<-1, 4>>}

\* The calls of f in the native log
CallsOf(f) == {i \in DOMAIN native : native[i][1] = f}

\* C14: Texture#update on a live texture with a string whose length is not
\* w*h*4, shorter or longer, raises ArgumentError, makes no native call (so
\* SDL_UpdateTexture is not reached) and leaves the texture's pixels as they
\* were; on a destroyed texture the guard raises first, to the same effect.
C14_LengthMismatch ==
    [][(res'.op = "update" /\ nops' = nops + 1 /\ res'.arg # obj.w * obj.h * 4)
       => /\ native' = native
          /\ texPix' = texPix
          /\ res'.out = IF get_texture(obj) THEN "ArgumentError" ELSE "SDL2Error"]_vars

\* A 2x1 texture was updated with 8 bytes (data 1), then refused a string of
\* 9 bytes: one SDL_UpdateTexture call in all, and the data still 1.
C14_Witness ==
    /\ kind = "Texture" /\ <<obj.w, obj.h>> = <<2, 1>>
    /\ res = [op |-> "update", arg |-> 9, out |-> "ArgumentError"]
    /\ texPix = 1
    /\ Cardinality(CallsOf("SDL_UpdateTexture")) = 1
    /\ nops = 2

\* The wrappers with a destroy (or close) method and a destroyed? method
\* that C16 names
Guarded == {"AudioStream", "Gamepad", "Renderer", "Core"}

\* C16, as stated: once destroy (or close) has been called on an
\* AudioStream, Gamepad, Renderer or Core wrapper, a later method that uses
\* the handle raises, the library is never called with a released handle,
\* and a later destroyed? returns true.
C16_AsClaimed ==
    (kind \in Guarded /\ everDestroyed) =>
        /\ res.op = "use" => res.out = GuardError(kind)
        /\ res.op = "destroyed?" => res.out = "true"
        /\ \A i \in DOMAIN native : native[i][3]

\* An AudioStream that was allocated but never opened (device_id 0):
\* destroy did nothing, destroyed? then answered false, although every
\* method that uses the device raises.
C16_Witness ==
    /\ kind = "AudioStream" /\ everDestroyed /\ ~freed
    /\ obj.handle = 0 /\ obj.destroyed = 0
    /\ res = [op |-> "destroyed?", arg |-> 0, out |-> "false"]
    /\ ~get_audio_stream(obj)
    /\ native = << >>

\* The release calls in the native log
ReleaseCalls == {i \in DOMAIN native : native[i][1] \in Releases}

C18_UnregisterOnce ==
    /\ [](/\ deletes <= creates
          /\ (es.made /\ (everUnreg \/ esFreed)) <=> deletes = 1
          /\ es.made => ((es.registered # 0) <=> ~(everUnreg \/ esFreed))
          /\ sources = (IF es.registered # 0 THEN 1 ELSE 0)
          /\ eres.op = "registered?" =>
                eres.out = IF everUnreg THEN "false" ELSE "true"
          /\ eres.op \in {"setup", "check"} => eres.out = "ok")
    /\ [][/\ checks' # checks =>
                /\ es.registered # 0 /\ es'.registered # 0
                /\ checks' = checks + 1
                /\ eres'.op = "check"
                /\ ("FILE" \in eres'.arg \/ eres'.arg \cap TCL_ALL_EVENTS # {})
          /\ (/\ eres'.op = "check" /\ eops' = eops + 1
              /\ "FILE" \in eres'.arg \/ eres'.arg \cap TCL_ALL_EVENTS # {})
                => checks' = checks + 1
          /\ (/\ eres'.op = "check" /\ eops' = eops + 1
              /\ ~("FILE" \in eres'.arg \/ eres'.arg \cap TCL_ALL_EVENTS # {}))
                => checks' = checks]_vars

\* The source was registered, its check_fn was called once, it was
\* unregistered and, after MaxEvtOps steps, collected: one
\* Tcl_DeleteEventSource call, made by unregister and not by the finalizer.
C18_Witness ==
    /\ es.made /\ esFreed /\ everUnreg
    /\ eops = MaxEvtOps
    /\ creates = 1 /\ deletes = 1 /\ checks = 1 /\ sources = 0
    /\ es.registered = 0
    /\ eres.op = "dfree"

\* The string one call of toast_background returns when nothing else runs:
\* empty for a degenerate size, else word py * w + px the colour of (px, py)
ToastImage(ww, hh, r) ==
    IF Degenerate(ww, hh) THEN << >>
    ELSE [k \in 1 .. (ww * hh) |->
            ToastColor(ToastDist((k - 1) % ww, (k - 1) \div ww, ww, hh,
                                 ClampRad(ww, hh, r)))]

\* The words of the string invocation i returned, read from the heap now
Result(i) == [k \in 1 .. inv[i].str[2] |-> heap[inv[i].str[1] + k - 1]]

\* The words of invocation i's buffer
Region(i) == inv[i].pixels .. (inv[i].pixels + inv[i].nbytes \div 4 - 1)

\* C15: however the steps of two invocations interleave, the string each
\* has returned holds, then and for as long as the other keeps running,
\* the words a call alone returns for the same arguments; the two buffers
\* share no word; and a step of one invocation changes neither the locals
\* of the other nor any heap word outside its own buffer.
C15_Interleaved ==
    /\ [](\A i \in ParProcs :
             /\ inv[i].pc = "done" =>
                   Result(i) = ToastImage(inv[i].w, inv[i].h, inv[i].rb_rad)
             /\ (inv[i].pc # "call" /\ inv[Other(i)].pc # "call") =>
                   Region(i) \cap Region(Other(i)) = {})
    /\ [][\A i \in ParProcs :
             inv'[i] # inv[i] =>
                /\ inv'[Other(i)] = inv[Other(i)]
                /\ \A a \in DOMAIN heap :
                      heap'[a] # heap[a] => a \in Region(i)']_vars

\* A 2x1 toast with square corners and a 2x2 toast with a clamped radius
\* ran with their steps interleaved and both returned, the 2x2 one having
\* allocated first: their words are apart in the heap, each string is the
\* image of a call alone, and the two images differ in their first word.
C15_Witness ==
    /\ overlap
    /\ inv[1].pc = "done" /\ inv[2].pc = "done"
    /\ <<inv[1].w, inv[1].h, inv[1].rb_rad>> = <<2, 1, 0>>
    /\ <<inv[2].w, inv[2].h, inv[2].rb_rad>> = <<2, 2, 1000>>
    /\ Result(1) = ToastImage(2, 1, 0)
    /\ Result(2) = ToastImage(2, 2, 1000)
    /\ Result(1)[1] # Result(2)[1]
    /\ inv[2].str = <<0, 4>> /\ inv[1].str = <<4, 2>>

\* The band of a distance: the five intervals with closed lower bounds at
\* aw/2 = 0.6, -aw/2 = -0.6, -(bw - aw/2) = -0.9 and -(bw + aw/2) = -2.1
Band(d) ==
    IF FGe(d, Dec(6)) THEN "transparent"
    ELSE IF FGe(d, Dec(-6)) THEN "outer fringe"
    ELSE IF FGe(d, Dec(-9)) THEN "solid border"
    ELSE IF FGe(d, Dec(-21)) THEN "inner fringe"
    ELSE "fill"

\* n lies between a and b, whichever is larger
Between(n, a, b) == (a <= n /\ n <= b) \/ (b <= n /\ n <= a)

\* The colour c is one the band allows
InBand(band, c) ==
    CASE band = "transparent" -> c = <<0, 0, 0, 0>>
      [] band = "outer fringe" ->
            \/ c = <<0, 0, 0, 0>>
            \/ /\ <<c[2], c[3], c[4]>> = <<100, 110, 140>>
               /\ c[1] \in 8 .. 210
      [] band = "solid border" -> c = <<210, 100, 110, 140>>
      [] band = "inner fringe" ->
            /\ Between(c[1], 180, 210) /\ Between(c[2], 20, 100)
            /\ Between(c[3], 20, 110) /\ Between(c[4], 28, 140)
      [] band = "fill" -> c = <<180, 20, 20, 28>>

\* C19: after each pixel of the loop, the colour computed from the pixel's
\* dist and stored for it is one of the band that dist falls in: zero when
\* transparent, the border RGB (or zero) in the outer fringe, exactly
\* A=210, R=100, G=110, B=140 in the solid border, channels between fill
\* and border in the inner fringe, exactly the fill colour in the fill.
C19_FiveBands ==
    (pc \in {"loop", "ret"} /\ stores # << >>) =>
        /\ InBand(Band(dist), color)
        /\ pixels[stores[Len(stores)]] = color

\* In the 6x6 toast of radius 3 the pixel (1, 1), on the corner arc at
\* dist about -0.88, has just been stored as the solid border colour.
C19_Witness ==
    /\ pc = "loop" /\ <<w, h, rb_rad>> = <<6, 6, 3>> /\ <<px, py>> = <<2, 1>>
    /\ FLt(dist, Dec(-6)) /\ FGe(dist, Dec(-9))
    /\ Band(dist) = "solid border"
    /\ color = <<210, 100, 110, 140>>
    /\ pixels[7] = <<210, 100, 110, 140>>

\* floor(210 * t + 0.5) with t = 0.5 - d / aw, in single precision
FringeAlpha(d) ==
    FToU8(FAdd(FMul(FInt(210), FSub(Dec(5), FDiv(d, Dec(12)))), Dec(5)))

\* C20: a pixel whose dist is in the outer fringe is stored with the border
\* RGB and alpha floor(210 * t + 0.5), t = 0.5 - dist/aw, or as zero when
\* that alpha is below 8; and in the returned image no pixel has an alpha
\* in 1..7 and every pixel of alpha 0 is the zero word.
C20_OuterFringe ==
    /\ (pc \in {"loop", "ret"} /\ stores # << >>
          /\ FLt(dist, Dec(6)) /\ FGe(dist, Dec(-6))) =>
          /\ color = IF FringeAlpha(dist) < 8 THEN <<0, 0, 0, 0>>
                     ELSE <<FringeAlpha(dist), 100, 110, 140>>
          /\ pixels[stores[Len(stores)]] = color
    /\ ToastDone =>
          \A i \in DOMAIN str :
             /\ str[i][1] \notin 1 .. 7
             /\ str[i][1] = 0 => str[i] = <<0, 0, 0, 0>>

\* In the 28x28 toast of radius 14 the pixel (8, 0), at dist about 0.577,
\* is in the outer fringe with a computed alpha of 4 and was stored as zero.
C20_Witness ==
    /\ pc = "loop" /\ <<w, h, rb_rad>> = <<28, 28, 14>> /\ <<px, py>> = <<9, 0>>
    /\ FLt(dist, Dec(6)) /\ FGe(dist, Dec(-6))
    /\ FringeAlpha(dist) = 4
    /\ color = <<0, 0, 0, 0>>
    /\ pixels[8] = <<0, 0, 0, 0>>

\* t = (d + bw + aw/2) / aw, in single precision
FringeT(d) == FDiv(FAdd(FAdd(d, Dec(15)), Dec(6)), Dec(12))

\* floor(b * t + f * (1 - t) + 0.5), in single precision
Channel(b, f, t) ==
    FToU8(FAdd(FAdd(FMul(FInt(b), t), FMul(FInt(f), FSub(FInt(1), t))), Dec(5)))

\* The distances of the pixels of the returned image that are in the inner
\* fringe
InnerDists ==
    {d \in {ToastDist(p[1], p[2], w, h, rad) :
               p \in (0 .. (w - 1)) \X (0 .. (h - 1))} :
        FLt(d, Dec(-9)) /\ FGe(d, Dec(-21))}

\* C21: a pixel whose dist is in the inner fringe is stored with the four
\* channels floor(border_c * t + fill_c * (1 - t) + 0.5), t = (dist + bw +
\* aw/2)/aw, where 0 <= t < 1, each channel lies between the fill and the
\* border value; the formula at t = 0 is the fill colour; and over the
\* inner-fringe pixels of a returned image a smaller dist has a smaller or
\* equal t.
C21_InnerFringe ==
    /\ <<Channel(210, 180, FZero), Channel(100, 20, FZero),
         Channel(110, 20, FZero), Channel(140, 28, FZero)>> = <<180, 20, 20, 28>>
    /\ (pc \in {"loop", "ret"} /\ stores # << >>
          /\ FLt(dist, Dec(-9)) /\ FGe(dist, Dec(-21))) =>
          LET t == FringeT(dist)
          IN  /\ FGe(t, FZero) /\ FLt(t, FInt(1))
              /\ color = <<Channel(210, 180, t), Channel(100, 20, t),
                           Channel(110, 20, t), Channel(140, 28, t)>>
              /\ color[1] \in 180 .. 210 /\ color[2] \in 20 .. 100
              /\ color[3] \in 20 .. 110 /\ color[4] \in 28 .. 140
              /\ pixels[stores[Len(stores)]] = color
    /\ ToastDone =>
          \A d1 \in InnerDists, d2 \in InnerDists :
             FLt(d1, d2) => FLe(FringeT(d1), FringeT(d2))

\* In the 4x4 toast of radius 2 the pixel (1, 1), at dist about -1.29, is in
\* the inner fringe and has just been stored as the blend (200, 74, 81, 103),
\* strictly between fill and border in every channel.
C21_Witness ==
    /\ pc = "loop" /\ <<w, h, rb_rad>> = <<4, 4, 2>> /\ <<px, py>> = <<2, 1>>
    /\ FLt(dist, Dec(-9)) /\ FGe(dist, Dec(-21))
    /\ FLt(FZero, FringeT(dist)) /\ FLt(FringeT(dist), FInt(1))
    /\ color = <<200, 74, 81, 103>>
    /\ pixels[5] = <<200, 74, 81, 103>>

\* The standard rounded-box signed distance in single precision:
\* length(max(q, 0)) + min(max(qx, qy), 0) - radius
StandardSDF(x, y, ww, hh, r) ==
    LET frad == FInt(r)
        hw   == FMul(FInt(ww), F0_5)
        hhf  == FMul(FInt(hh), F0_5)
        qx   == FSub(FAbs(FSub(FAdd(FInt(x), F0_5), hw)), FSub(hw, frad))
        qy   == FSub(FAbs(FSub(FAdd(FInt(y), F0_5), hhf)), FSub(hhf, frad))
        mx   == IF FGt(qx, FZero) THEN qx ELSE FZero
        my   == IF FGt(qy, FZero) THEN qy ELSE FZero
        len  == FSqrt(FAdd(FMul(mx, mx), FMul(my, my)))
        mq   == IF FGt(qx, qy) THEN qx ELSE qy
        ins  == IF FLt(mq, FZero) THEN mq ELSE FZero
    IN  FSub(FAdd(len, ins), frad)

\* Where the centre (x + 1/2, y + 1/2) lies with respect to the rounded
\* boundary of the w x h box with corner radius r, in exact integer
\* arithmetic on doubled coordinates: -1 strictly inside, 0 on it, 1 strictly
\* outside.
Side(x, y, ww, hh, r) ==
    LET X  == 2 * x + 1
        Y  == 2 * y + 1
        ex == IF X < 2 * r THEN 2 * r - X
              ELSE IF X > 2 * ww - 2 * r THEN X - (2 * ww - 2 * r) ELSE 0
        ey == IF Y < 2 * r THEN 2 * r - Y
              ELSE IF Y > 2 * hh - 2 * r THEN Y - (2 * hh - 2 * r) ELSE 0
        n  == ex * ex + ey * ey
        box == IF X > 0 /\ X < 2 * ww /\ Y > 0 /\ Y < 2 * hh THEN -1
               ELSE IF X >= 0 /\ X <= 2 * ww /\ Y >= 0 /\ Y <= 2 * hh THEN 0
               ELSE 1
    IN  IF ex > 0 /\ ey > 0
        THEN (IF n < 4 * r * r THEN -1 ELSE IF n = 4 * r * r THEN 0 ELSE 1)
        ELSE box

SignOf(d) == IF FLt(d, FZero) THEN -1 ELSE IF FGt(d, FZero) THEN 1 ELSE 0

\* C22: the distance toast_background computes equals the standard
\* rounded-box signed distance for every pixel and every clamped radius, and
\* its sign tells where the pixel centre lies: negative strictly inside the
\* rounded boundary, zero exactly on it, positive strictly outside.
C22_AsClaimed ==
    pc = "measured" =>
        /\ dist = StandardSDF(px, py, w, h, rad)
        /\ SignOf(dist) = Side(px, py, w, h, rad)

\* The centre of pixel (1640, 41) of the 4102 x 4102 toast with radius 2051
\* lies strictly inside the corner circle, and its computed distance is 0.
C22_Witness ==
    /\ pc = "measured"
    /\ <<px, py, w, h, rad>> = <<1640, 41, 4102, 4102, 2051>>
    /\ dist = StandardSDF(px, py, w, h, rad)
    /\ Side(px, py, w, h, rad) = -1
    /\ dist = FZero

\* fill_rounded_rect has passed the radius test and issued its body
\* rectangles: the calls after the two draw-state calls
BodyIssued == method = "fill" /\ rpc \in {"loop", "done"} /\ ~PlainRect(radius)
Body == {sdl[3], sdl[4], sdl[5]}

\* The SDL_Rect {p[2], p[3], p[4], p[5]} has no negative size and its
\* extent lies within {a, b, c, d}
Within(p, a, b, c, d) ==
    /\ p[4] >= 0 /\ p[5] >= 0
    /\ a <= p[2] /\ p[2] + p[4] <= a + c
    /\ b <= p[3] /\ p[3] + p[5] <= b + d

\* C23: for w, h >= 1 and radius > 0 the three body rectangles built after
\* clamping (centre {x+rad, y, w-2rad, h}, left {x, y+rad, rad, h-2rad},
\* right {x+w-rad, y+rad, rad, h-2rad}) have width and height >= 0, lie
\* inside {x, y, w, h} and are pairwise non-overlapping.
C23_BodyRects ==
    (BodyIssued /\ rw >= 1 /\ rh >= 1) =>
        /\ <<sdl[3], sdl[4], sdl[5]>> =
              << FillRect(rx + rrad, ry, rw - 2 * rrad, rh),
                 FillRect(rx, ry + rrad, rrad, rh - 2 * rrad),
                 FillRect(rx + rw - rrad, ry + rrad, rrad, rh - 2 * rrad) >>
        /\ \A p \in Body :
              /\ Within(p, rx, ry, rw, rh)
              /\ PrimPixels(p) \subseteq Box(rx, ry, rw, rh)
        /\ \A i \in 3 .. 5, j \in 3 .. 5 :
              i # j => PrimPixels(sdl[i]) \cap PrimPixels(sdl[j]) = {}

\* An 8 x 5 box with radius 100, clamped to 2: three rectangles of positive
\* size side by side, 20 + 2 + 2 pixels
C23_Witness ==
    /\ BodyIssued /\ rpc = "done"
    /\ <<rx, ry, rw, rh, radius>> = <<3, -2, 8, 5, 100>> /\ rrad = 2
    /\ <<sdl[3], sdl[4], sdl[5]>> =
          <<FillRect(5, -2, 4, 5), FillRect(3, 0, 2, 1), FillRect(9, 0, 2, 1)>>
    /\ \A p \in Body : PrimPixels(p) # {}

\* The loop test of either method is about to be evaluated
LoopHead == method \in {"fill", "draw"} /\ rpc = "loop"

\* C24: the midpoint loop of fill_rounded_rect and draw_rounded_rect starts
\* at dx = rad, dy = 0, err = 1 - rad; at the start of every iteration that
\* emits primitives 0 <= dy <= dx <= rad and
\* err = dx*dx + dy*dy + 2*dy + 1 - dx - rad*rad; each step increases dy by
\* exactly 1 and decreases dx by 0 or 1.
C24_Midpoint ==
    /\ []((LoopHead /\ dx >= dy) =>
             /\ 0 <= dy /\ dy <= dx /\ dx <= rrad
             /\ err = dx * dx + dy * dy + 2 * dy + 1 - dx - rrad * rrad)
    /\ [][(rpc = "call" /\ rpc' = "loop") =>
             (dx' = rrad' /\ dy' = 0 /\ err' = 1 - rrad')]_vars
    /\ [][(rpc = "loop" /\ rpc' = "loop") =>
             (dy' = dy + 1 /\ dx' \in {dx - 1, dx} /\ rrad' = rrad)]_vars

\* Radius 4, fourth iteration: dx has dropped to 3, dy has reached 3, and
\* the iteration emits (two draw-state calls, four edges, 3 * 8 points so far)
C24_Witness ==
    /\ LoopHead /\ method = "draw" /\ rrad = 4
    /\ <<dx, dy, err>> = <<3, 3, 6>>
    /\ Len(sdl) = 30

\* The number of iterations of the arc loop so far, counted from the calls
\* issued: fill emits 4 spans per iteration and 4 more when dx # dy (dx = dy
\* happens in at most one iteration), draw emits 8 points.
ArcCalls == Len(sdl) - (IF method = "fill" THEN 5 ELSE 6)
ArcIterations ==
    IF method = "draw" THEN ArcCalls \div 8 ELSE (ArcCalls + 4) \div 8

\* C25: every rasterizer call runs to completion: the arc loop of
\* fill_rounded_rect and draw_rounded_rect ends after at most rad + 1
\* iterations for every clamped radius rad >= 0, and the pixel loops of
\* toast_background end after exactly w * h iterations.
C25_Terminates ==
    /\ (rpc = "call") ~> (rpc = "done")
    /\ (pc = "call") ~> (pc \in {"done", "raised"})
    /\ [](LoopHead /\ rrad >= 0 =>
            /\ ArcIterations = dy
            /\ ArcIterations <= rrad + 1
            /\ (dx >= dy => ArcIterations <= rrad))
    /\ [](pc \in {"ret", "done"} /\ ~Degenerate(w, h) =>
            /\ Len(stores) = w * h
            /\ \A i \in 1 .. Len(stores) : stores[i] = i - 1)
    /\ [](pc = "done" /\ Degenerate(w, h) => stores = << >>)

\* Radius 4: the loop has ended after 4 iterations (dy = 4 > dx = 2), the
\* call has returned
C25_Witness ==
    /\ method = "draw" /\ rpc = "done" /\ rrad = 4
    /\ <<dx, dy>> = <<2, 4>>
    /\ ArcIterations = 4

\* C26: fill_rounded_rect clamps the radius to min(w, h) / 2 first and then
\* tests it: when a positive requested radius clamps to 0 (w < 2 or h < 2)
\* it draws exactly one solid rectangle {x, y, w, h} and returns, emitting no
\* body strips, spans or points, exactly as for a requested radius <= 0.
C26_AsClaimed ==
    (FillDone /\ radius > 0 /\ ClampRectRad(rw, rh, radius) = 0) =>
        sdl = renderer_fill_rect(rx, ry, rw, rh, rcol)

\* fill_rounded_rect(0, 0, 1, 5, 3, ...): the radius 3 passes the test
\* rad <= 0, clamps to 0, and the method issues the three body rectangles and
\* one iteration of spans, nine SDL calls in all
C26_Witness ==
    /\ FillDone /\ <<rx, ry, rw, rh, radius>> = <<0, 0, 1, 5, 3>>
    /\ rcol[4] = 128
    /\ rrad = 0
    /\ Len(sdl) = 9
    /\ <<sdl[3], sdl[4], sdl[5]>> =
          <<FillRect(0, 0, 1, 5), FillRect(0, 0, 0, 5), FillRect(1, 0, 0, 5)>>
    /\ <<sdl[6], sdl[7], sdl[8], sdl[9]>> =
          <<DrawLine(0, 0, 0, 0), DrawLine(0, 0, 0, 0),
            DrawLine(0, 4, 0, 4), DrawLine(0, 4, 0, 4)>>
    /\ Covered(sdl) = Box(0, 0, 1, 5)

\* Row yy crosses the straight part of the left and right edges, column xx
\* that of the top and bottom edges: its pixel centres lie between the
\* corner arcs.
StraightRow(yy) == rad <= yy /\ yy <= h - 1 - rad
StraightCol(xx) == rad <= xx /\ xx <= w - 1 - rad

\* How many pixels lie between pixel (xx, yy) and the nearest side of the box
Least(S) == CHOOSE n \in S : \A m \in S : n <= m
Depth(xx, yy) == Least({xx, w - 1 - xx, yy, h - 1 - yy})

HasFill == \E i \in DOMAIN str : str[i] = fill_color
BorderInRow(yy) == \E xx \in 0 .. (w - 1) : Pix(xx, yy) = border_color
BorderInCol(xx) == \E yy \in 0 .. (h - 1) : Pix(xx, yy) = border_color

EndPoints(p) ==
    IF p[1] = "RenderDrawLine" THEN {<<p[2], p[3]>>, <<p[4], p[5]>>}
    ELSE IF p[1] = "RenderDrawPoint" THEN {<<p[2], p[3]>>}
    ELSE {}

\* C28: for all x, y, all w, h >= 1 and every radius, every pixel emitted by
\* fill_rounded_rect or draw_rounded_rect (rectangles, spans, edges, arc
\* points) lies inside the box x <= px < x + w, y <= py < y + h, and no
\* primitive has an end point outside it.
C28_InsideBox ==
    (method \in {"fill", "draw"} /\ rw >= 1 /\ rh >= 1) =>
        \A i \in DOMAIN sdl :
           /\ PrimPixels(sdl[i]) \subseteq Box(rx, ry, rw, rh)
           /\ EndPoints(sdl[i]) \subseteq Box(rx, ry, rw, rh)

\* draw_rounded_rect(3, -2, 8, 5, 100): radius 2; the arcs start at (3, 0)
\* and (10, 0) on the left and right sides of the box and leave its corner
\* (3, -2) undrawn
C28_Witness ==
    /\ DrawDone /\ <<rx, ry, rw, rh, radius>> = <<3, -2, 8, 5, 100>> /\ rrad = 2
    /\ {<<3, 0>>, <<10, 0>>, <<5, -2>>, <<8, 2>>} \subseteq Covered(sdl)
    /\ \E i \in DOMAIN sdl : sdl[i] = DrawPoint(3, 0)
    /\ \E i \in DOMAIN sdl : sdl[i] = DrawPoint(10, 0)
    /\ <<3, -2>> \notin Covered(sdl)

\* C29: for all x, y, all w, h >= 1 and every radius, every pixel plotted by
\* draw_rounded_rect is also covered by fill_rounded_rect called with the
\* same arguments.  (The first conjunct ties the calls of a whole fill call
\* to the calls the fill steps issue.)
C29_OutlineInFill ==
    /\ FillDone => sdl = SetDrawState(rcol) \o FillCalls(rx, ry, rw, rh, radius)
    /\ (method = "draw" /\ rw >= 1 /\ rh >= 1) =>
          Covered(sdl) \subseteq Covered(FillCalls(rx, ry, rw, rh, radius))

\* draw_rounded_rect(0, 0, 4, 4, 100): radius 2 and no straight part, the
\* top edge runs from x = 2 back to x = 1; the outline has 8 pixels, all
\* among the 12 that fill_rounded_rect(0, 0, 4, 4, 100) covers
C29_Witness ==
    /\ DrawDone /\ <<rx, ry, rw, rh, radius>> = <<0, 0, 4, 4, 100>> /\ rrad = 2
    /\ sdl[3] = DrawLine(2, 0, 1, 0)
    /\ Cardinality(Covered(sdl)) = 8
    /\ Cardinality(Covered(FillCalls(0, 0, 4, 4, 100))) = 12
    /\ Covered(sdl) \subseteq Covered(FillCalls(0, 0, 4, 4, 100))

\* The entries of the native log in which SDL was handed the texture pointer
TextureCalls == {i \in DOMAIN native : native[i][2] = "tex"}

\* C30: a Texture's native handle is never passed to SDL after the Renderer
\* that created it has been destroyed: in every sequence of create_texture,
\* Renderer#destroy, Texture#update, Texture#blend_mode=, Renderer#copy,
\* Texture#destroy and the finalizers of both objects, a texture operation
\* that follows the renderer's destruction raises or is a no-op; so every
\* texture pointer SDL receives is that of a live texture.
C30_AsClaimed ==
    kind = "Pair" => \A i \in TextureCalls : native[i][3]

\* create_texture, Renderer#destroy, then Texture#update: get_texture passes
\* (the Texture's own flag is clear, its pointer set) and SDL_UpdateTexture
\* receives the pointer of a texture SDL_DestroyRenderer has freed
C30_Witness ==
    /\ kind = "Pair" /\ nops = 3
    /\ obj.ren.destroyed = 1 /\ obj.ren.handle = 0
    /\ obj.tex.destroyed = 0 /\ obj.tex.handle # 0
    /\ native = << <<"SDL_CreateTexture", "ren", TRUE>>,
                   <<"SDL_DestroyRenderer", "ren", TRUE>>,
                   <<"SDL_UpdateTexture", "tex", FALSE>> >>
    /\ res.op = "SDL_UpdateTexture"

====
